---- MODULE Spec2Model ----
(***************************************************************************)
(* A model of the signal-processing core of kid_readout:                   *)
(*   roach/demodulator.py        tone offsets, packet-phase period,        *)
(*                               batch truncation                          *)
(*   analysis/timeseries/iqnoise.py  full_spectral_helper, pca_noise,      *)
(*                               calculate_pca_noise                       *)
(*                                                                         *)
(* The demodulator's offsets are Python floats (IEEE-754 binary64) and the *)
(* claims about them are claims of exact equality, so that part is         *)
(* computed here in binary64, correctly rounded, on multi-limb integers.   *)
(* The spectral estimator and the PCA are algebraic: they are computed in  *)
(* exact rational arithmetic (quadratic surds where a square root enters). *)
(***************************************************************************)
EXTENDS Integers, Sequences, FiniteSets, TLC

VARIABLES op, args, ret

vars == <<op, args, ret>>

----------------------------------------------------------------------------
(* Small integer helpers.                                                  *)

Abs(n) == IF n < 0 THEN -n ELSE n

Sgn(n) == IF n < 0 THEN -1 ELSE IF n > 0 THEN 1 ELSE 0

Min2(a, b) == IF a <= b THEN a ELSE b

Max2(a, b) == IF a >= b THEN a ELSE b

RECURSIVE Gcd(_, _)
Gcd(a, b) == IF b = 0 THEN Abs(a) ELSE Gcd(b, a % b)

RECURSIVE NatBitLen(_)
NatBitLen(n) == IF n = 0 THEN 0 ELSE 1 + NatBitLen(n \div 2)

IsPow2(n) == n >= 1 /\ 2 ^ (NatBitLen(n) - 1) = n

\* The sequence f, every element computed once: TLC keeps [i \in 1..n |-> e]
\* unevaluated and computes e anew at every f[i].
Tuple(f) == f \o <<>>

----------------------------------------------------------------------------
(* Unbounded naturals: little-endian sequences of limbs below Limb, with   *)
(* no high zero limb; <<>> is 0.  They carry the 53-bit significands of    *)
(* Python floats, which do not fit TLC's 32-bit integers.                  *)

Limb == 2 ^ 15

RECURSIVE BTrim(_)
BTrim(s) ==
  IF s = <<>> THEN s
  ELSE IF s[Len(s)] = 0 THEN BTrim(SubSeq(s, 1, Len(s) - 1)) ELSE s

RECURSIVE BFromNat(_)
BFromNat(n) == IF n = 0 THEN <<>> ELSE <<n % Limb>> \o BFromNat(n \div Limb)

RECURSIVE BToNat(_)
BToNat(s) == IF s = <<>> THEN 0 ELSE s[1] + Limb * BToNat(Tail(s))

BLimb(s, i) == IF i <= Len(s) THEN s[i] ELSE 0

BDouble(s) ==
  BTrim([i \in 1..(Len(s) + 1) |->
           ((2 * BLimb(s, i)) % Limb)
           + (IF i > 1 /\ s[i - 1] >= Limb \div 2 THEN 1 ELSE 0)])

BHalve(s) ==
  BTrim([i \in 1..Len(s) |->
           (s[i] \div 2) + (IF BLimb(s, i + 1) % 2 = 1 THEN Limb \div 2 ELSE 0)])

BOdd(s) == s # <<>> /\ s[1] % 2 = 1

RECURSIVE BCmpAt(_, _, _)
BCmpAt(a, b, i) ==
  IF i = 0 THEN 0
  ELSE IF a[i] < b[i] THEN -1
  ELSE IF a[i] > b[i] THEN 1
  ELSE BCmpAt(a, b, i - 1)

BCmp(a, b) ==
  IF Len(a) < Len(b) THEN -1
  ELSE IF Len(a) > Len(b) THEN 1
  ELSE BCmpAt(a, b, Len(a))

RECURSIVE BAddAt(_, _, _, _)
BAddAt(a, b, i, c) ==
  IF i > Max2(Len(a), Len(b))
  THEN (IF c = 0 THEN <<>> ELSE <<c>>)
  ELSE LET s == BLimb(a, i) + BLimb(b, i) + c
       IN  <<s % Limb>> \o BAddAt(a, b, i + 1, s \div Limb)

BAdd(a, b) == BAddAt(a, b, 1, 0)

RECURSIVE BSubAt(_, _, _, _)
BSubAt(a, b, i, c) ==
  IF i > Len(a) THEN <<>>
  ELSE LET s == a[i] - BLimb(b, i) - c
       IN  <<s % Limb>> \o BSubAt(a, b, i + 1, IF s < 0 THEN 1 ELSE 0)

\* a - b for a >= b
BSub(a, b) == BTrim(BSubAt(a, b, 1, 0))

RECURSIVE BMulAt(_, _, _, _)
BMulAt(a, n, i, c) ==
  IF i > Len(a) THEN BFromNat(c)
  ELSE LET s == a[i] * n + c
       IN  <<s % Limb>> \o BMulAt(a, n, i + 1, s \div Limb)

\* a * n for a natural n < Limb
BMulSmall(a, n) == BTrim(BMulAt(a, n, 1, 0))

BBitLen(a) ==
  IF a = <<>> THEN 0 ELSE (Len(a) - 1) * 15 + NatBitLen(a[Len(a)])

RECURSIVE BShl(_, _)
BShl(a, k) ==
  IF k = 0 \/ a = <<>> THEN a
  ELSE IF k >= 15 THEN BShl(<<0>> \o a, k - 15)
  ELSE BShl(BDouble(a), k - 1)

\* a shifted right by k bits, with the last bit shifted out (guard) and
\* whether any earlier bit shifted out, or st, was set (sticky).  (The tests
\* on Len(a), guard and st are never true: they make TLC evaluate its
\* arguments at every level instead of nesting them.)
RECURSIVE BShrSticky(_, _, _, _)
BShrSticky(a, k, guard, st) ==
  IF k = 0 \/ Len(a) < 0 \/ guard < 0 \/ st \notin BOOLEAN
  THEN [q |-> a, guard |-> guard, sticky |-> st]
  ELSE BShrSticky(BHalve(a), k - 1, IF BOdd(a) THEN 1 ELSE 0, st \/ guard = 1)

----------------------------------------------------------------------------
(* IEEE-754 binary64 (the Python float), round to nearest, ties to even.   *)
(* A float is [s, m, e]: value s * m * 2^e with m of exactly MantBits      *)
(* bits, or FZero.  The exponent range is never reached by the values of   *)
(* this model (small integers, their quotients and reciprocals).           *)

MantBits == 53

FZero == [s |-> 0, m |-> <<>>, e |-> 0]

\* the float nearest to sgn * (n * 2^e + a nonzero tail below 2^e if sticky)
FRound(sgn, n, e, sticky) ==
  LET len == BBitLen(n) IN
  IF n = <<>> \/ sgn = 0 THEN FZero
  ELSE IF len <= MantBits
  THEN [s |-> sgn, m |-> BShl(n, MantBits - len), e |-> e - (MantBits - len)]
  ELSE LET d  == len - MantBits
           sh == BShrSticky(n, d, 0, sticky)
           up == sh.guard = 1 /\ (sh.sticky \/ BOdd(sh.q))
           q  == IF up THEN BAdd(sh.q, <<1>>) ELSE sh.q
       IN  IF BBitLen(q) > MantBits
           THEN [s |-> sgn, m |-> BHalve(q), e |-> e + d + 1]
           ELSE [s |-> sgn, m |-> q, e |-> e + d]

\* float(n) for a Python int n
FFromInt(n) == FRound(Sgn(n), BFromNat(Abs(n)), 0, FALSE)

\* The division loop works on naturals below 2^60 held as two digits
\* <<low, high>> in base Limb^2.
Limb2 == Limb * Limb

BToPair(a) == <<BLimb(a, 1) + Limb * BLimb(a, 2), BLimb(a, 3) + Limb * BLimb(a, 4)>>

BFromPair(p) ==
  BTrim(<<p[1] % Limb, p[1] \div Limb, p[2] % Limb, p[2] \div Limb>>)

\* n more quotient bits of r / y (r < y): the quotient so far is q
RECURSIVE FDivLoop(_, _, _, _)
FDivLoop(r, y, q, n) ==
  IF n = 0 \/ r[1] < 0 \/ q[1] < 0 THEN [q |-> q, r |-> r]
  ELSE LET r2 == <<(2 * r[1]) % Limb2, 2 * r[2] + ((2 * r[1]) \div Limb2)>>
           q2 == <<(2 * q[1]) % Limb2, 2 * q[2] + ((2 * q[1]) \div Limb2)>>
           ge == r2[2] > y[2] \/ (r2[2] = y[2] /\ r2[1] >= y[1])
           bw == IF r2[1] < y[1] THEN 1 ELSE 0
       IN  IF ge
           THEN FDivLoop(<<(r2[1] - y[1]) % Limb2, r2[2] - y[2] - bw>>, y,
                         <<q2[1] + 1, q2[2]>>, n - 1)
           ELSE FDivLoop(r2, y, q2, n - 1)

\* x / y, y nonzero: MantBits + 2 quotient bits and a sticky remainder
FDiv(x, y) ==
  IF x.s = 0 THEN FZero
  ELSE LET ge == BCmp(x.m, y.m) >= 0
           dv == IF ge
                 THEN FDivLoop(BToPair(BSub(x.m, y.m)), BToPair(y.m),
                               <<1, 0>>, MantBits + 1)
                 ELSE FDivLoop(BToPair(x.m), BToPair(y.m), <<0, 0>>,
                               MantBits + 2)
           ex == x.e - y.e - (IF ge THEN MantBits + 1 ELSE MantBits + 2)
       IN  FRound(x.s * y.s, BFromPair(dv.q), ex, dv.r # <<0, 0>>)

\* n * x for a Python int 0 <= n < Limb (converted exactly to a float)
FMulNat(n, x) ==
  IF n = 0 \/ x.s = 0 THEN FZero
  ELSE FRound(x.s, BMulSmall(x.m, n), x.e, FALSE)

FNeg(x) == [x EXCEPT !.s = -x.s]

\* x + y
FAdd(x, y) ==
  IF x.s = 0 THEN y
  ELSE IF y.s = 0 THEN x
  ELSE LET e  == Min2(x.e, y.e)
           xm == BShl(x.m, x.e - e)
           ym == BShl(y.m, y.e - e)
           c  == BCmp(xm, ym)
       IN  IF x.s = y.s THEN FRound(x.s, BAdd(xm, ym), e, FALSE)
           ELSE IF c = 0 THEN FZero
           ELSE IF c > 0 THEN FRound(x.s, BSub(xm, ym), e, FALSE)
           ELSE FRound(y.s, BSub(ym, xm), e, FALSE)

FSub(x, y) == FAdd(x, FNeg(y))

\* -1, 0, 1 as x < y, x = y, x > y
FCmp(x, y) ==
  IF x.s # y.s THEN Sgn(x.s - y.s)
  ELSE IF x.s = 0 THEN 0
  ELSE IF x.e # y.e THEN x.s * Sgn(x.e - y.e)
  ELSE x.s * BCmp(x.m, y.m)

\* int(x): truncation toward zero
FTrunc(x) ==
  IF x.s = 0 \/ x.e <= -MantBits THEN 0
  ELSE IF x.e >= 0 THEN x.s * BToNat(BShl(x.m, x.e))
  ELSE x.s * BToNat(BShrSticky(x.m, -x.e, 0, FALSE).q)

----------------------------------------------------------------------------
(* Python 2 integer arithmetic and slicing.                                *)

\* a // b (floor), b nonzero
PyFloorDiv(a, b) == IF b > 0 THEN a \div b ELSE (-a) \div (-b)

\* a % b (sign of b), b nonzero
PyMod(a, b) == a - b * PyFloorDiv(a, b)

\* seq[:stop]
PySliceTo(seq, stop) ==
  LET n == IF stop < 0 THEN Max2(Len(seq) + stop, 0) ELSE Min2(stop, Len(seq))
  IN  SubSeq(seq, 1, n)

----------------------------------------------------------------------------
(* roach/demodulator.py                                                    *)

\* tone_offset_frequency without the subtraction of the FFT bin
tone_offset_frequency_no_bin(tone_bin, tone_num_samples, fft_bin, nfft) ==
  FMulNat(nfft, FDiv(FFromInt(tone_bin), FFromInt(tone_num_samples)))

\* nfft * (k / float(ns)) - m
tone_offset_frequency(tone_bin, tone_num_samples, fft_bin, nfft) ==
  FSub(FMulNat(nfft, FDiv(FFromInt(tone_bin), FFromInt(tone_num_samples))),
       FFromInt(fft_bin))

\* the smallest element of a non-empty sequence of floats (np.min)
RECURSIVE FMinFrom(_, _, _)
FMinFrom(xs, i, best) ==
  IF i > Len(xs) THEN best
  ELSE FMinFrom(xs, i + 1, IF FCmp(xs[i], best) < 0 THEN xs[i] ELSE best)

\* the largest element of a non-empty sequence of floats (np.max)
RECURSIVE FMaxFrom(_, _, _)
FMaxFrom(xs, i, best) ==
  IF i > Len(xs) THEN best
  ELSE FMaxFrom(xs, i + 1, IF FCmp(xs[i], best) > 0 THEN xs[i] ELSE best)

\* foffs[mask] for mask = foffs != 0
RECURSIVE MaskNonzero(_)
MaskNonzero(foffs) ==
  IF foffs = <<>> THEN <<>>
  ELSE (IF Head(foffs).s # 0 THEN <<Head(foffs)>> ELSE <<>>)
       \o MaskNonzero(Tail(foffs))

\* get_foffs_period with a maximum that is 0 over no channels
get_foffs_period_silent(foffs) ==
  LET sel == MaskNonzero(foffs)
      rec == Tuple([i \in 1..Len(sel) |-> FDiv(FFromInt(1), sel[i])])
  IN  [status |-> "ok",
       nt |-> IF sel = <<>> THEN 0 ELSE FTrunc(FMaxFrom(rec, 2, rec[1]))]

\* int(np.max(1/foffs[mask])); np.max of an empty array raises ValueError
get_foffs_period(foffs) ==
  LET sel == MaskNonzero(foffs)
      rec == Tuple([i \in 1..Len(sel) |-> FDiv(FFromInt(1), sel[i])])
  IN  IF sel = <<>>
      THEN [status |-> "ValueError", nt |-> 0]
      ELSE [status |-> "ok", nt |-> FTrunc(FMaxFrom(rec, 2, rec[1]))]

\* The attributes demodulate_stream reads from self beyond those __init__
\* sets (bank, tone_bins, tone_nsamp, fft_bins, phases, readout_selection,
\* demodulator): a Demodulator as constructed has none of them.
StreamAttrs == {"bank", "tone_bins", "tone_nsamp", "fft_bins", "phases",
                "readout_selection", "demodulator"}

\* demodulate_stream: self is [attrs, nfft, tone_nsamp, tone_bins, fft_bins]
\* (the rows of the current bank), data the sequence of the buffer's rows.
\* The result names the rows returned; what multiplies them is
\* create_demod_wave's business.
demodulate_stream(self, data) ==
  IF ~(StreamAttrs \subseteq self.attrs)
  THEN [status |-> "AttributeError", nt |-> 0, foffs |-> <<>>, rows |-> <<>>]
  ELSE
  LET foffs == Tuple([c \in 1..Len(self.tone_bins) |->
                  tone_offset_frequency(self.tone_bins[c], self.tone_nsamp,
                                        self.fft_bins[c], self.nfft)])
      per   == get_foffs_period(foffs)
      nt    == per.nt
  IN  IF per.status # "ok"
      THEN [status |-> per.status, nt |-> 0, foffs |-> foffs, rows |-> <<>>]
      ELSE IF nt = 0
      THEN [status |-> "ZeroDivisionError", nt |-> 0, foffs |-> foffs,
            rows |-> <<>>]
      ELSE [status |-> "ok", nt |-> nt, foffs |-> foffs,
            rows |-> IF PyMod(Len(data), nt) # 0
                     THEN PySliceTo(data, nt * PyFloorDiv(Len(data), nt))
                     ELSE data]

----------------------------------------------------------------------------
(* Calls of the demodulator's functions.  op names the call, args its      *)
(* arguments and ret what it returned or raised.  Every function here is   *)
(* a function of its arguments alone, so each behaviour makes one call     *)
(* from the initial state.                                                 *)

\* tone_offset_frequency is called with nfft in 1..MaxNfft, a playback
\* length ns = j * nfft for j in 1..MaxRatio, a tone bin below ns and at most
\* MaxToneBin, and one of the two FFT bins next to the tone.
MaxNfft == 25

MaxRatio == 3

MaxToneBin == 7

\* spec.md 8, the two-channel scenario: playback_bin = 100,
\* playback_length = 65536, fft_bin = 25, FFT_length = 16384
ScenarioTone == [tone_bin |-> 100, tone_num_samples |-> 65536,
                 fft_bin |-> 25, nfft |-> 16384]

ToneInputs ==
  { [tone_bin |-> k, tone_num_samples |-> j * n,
     fft_bin |-> ((k * n) \div (j * n)) + dm, nfft |-> n] :
      <<n, j, k, dm>> \in { t \in (1..MaxNfft) \X (1..MaxRatio)
                                   \X (0..MaxToneBin) \X (0..1) :
                            t[3] < t[2] * t[1] } }
  \cup {ScenarioTone}

CallToneOffsetFrequency ==
  \E a \in ToneInputs :
    /\ op = "init"
    /\ op' = "tone_offset_frequency"
    /\ args' = a
    /\ ret' = tone_offset_frequency(a.tone_bin, a.tone_num_samples,
                                    a.fft_bin, a.nfft)

\* get_foffs_period is called with two channels whose offsets are the
\* floats num / float(den): channel 1 has 1/den for den up to MaxDen, or
\* any of -1/den, 0/den, 1/den for den up to SmallDen; channel 2 repeats
\* channel 1, or is zero, or (next to a channel 1 of den up to SmallDen) has
\* a numerator in -1..1 over a den up to SmallDen.
MaxDen == 93

SmallDen == 4

OffsetFractions ==
  { q \in (-1..1) \X (1..MaxDen) : q[1] = 1 \/ q[2] <= SmallDen }

SmallFractions == (-1..1) \X (1..SmallDen)

FracFloat(q) == FDiv(FFromInt(q[1]), FFromInt(q[2]))

CallGetFoffsPeriod ==
  \E q1 \in OffsetFractions :
    \E q2 \in (IF q1[2] <= SmallDen THEN SmallFractions ELSE {<<0, 1>>})
                 \cup {q1} :
      LET foffs == <<FracFloat(q1), FracFloat(q2)>> IN
      /\ op = "init"
      /\ op' = "get_foffs_period"
      /\ args' = [fracs |-> <<q1, q2>>, foffs |-> foffs]
      /\ ret' = get_foffs_period(foffs)

\* The attributes __init__ sets (lines 8-14).
InitAttrs == {"nfft", "num_taps", "window_function", "interpolation_factor",
              "hardware_delay_samples", "_window_frequency",
              "_window_response"}

\* demodulate_stream is called on an object with or without the stream
\* attributes, two channels, nfft in StreamNffts, ns = j * nfft for j up to
\* MaxStreamRatio, tone bins up to MaxStreamBin and a buffer of up to
\* MaxSamples rows (row i of the buffer is named i).
StreamNffts == {1, 2}

MaxStreamRatio == 4

MaxStreamBin == 1

MaxSamples == 5

StreamChannels(n, ns) ==
  { c \in (0..MaxStreamBin) \X (0..1) : c[1] < ns }

StreamFftBin(c, n, ns) == ((c[1] * n) \div ns) + c[2]

CallDemodulateStream ==
  \E n \in StreamNffts, j \in 1..MaxStreamRatio, has \in BOOLEAN :
    \E c1, c2 \in StreamChannels(n, j * n) :
      \E len \in 0..MaxSamples :
        LET ns   == j * n
            self == [attrs |-> IF has THEN InitAttrs \cup StreamAttrs
                               ELSE InitAttrs,
                     nfft |-> n, tone_nsamp |-> ns,
                     tone_bins |-> <<c1[1], c2[1]>>,
                     fft_bins |-> <<StreamFftBin(c1, n, ns),
                                    StreamFftBin(c2, n, ns)>>]
            data == [i \in 1..len |-> i]
        IN  /\ op = "init"
            /\ has \/ (c1 = c2 /\ c1[2] = 0 /\ len = MaxSamples)
            /\ op' = "demodulate_stream"
            /\ args' = [self |-> self, data |-> data]
            /\ ret' = demodulate_stream(self, data)

----------------------------------------------------------------------------
Init == op = "init" /\ args = <<>> /\ ret = <<>>

NextDemod ==
  \/ CallToneOffsetFrequency
  \/ CallGetFoffsPeriod
  \/ CallDemodulateStream

SpecDemod == Init /\ [][NextDemod]_vars

----------------------------------------------------------------------------
(* Properties of the demodulator (SpecDemod).                              *)

\* k * nfft - m * ns of a call of tone_offset_frequency: the offset is
\* this integer over ns
ToneNumerator ==
  args.tone_bin * args.nfft - args.fft_bin * args.tone_num_samples

\* C1, as stated: whenever k * nfft = m * ns the offset returned by
\* tone_offset_frequency is exactly 0.
C1_ZeroWheneverAligned ==
  (op = "tone_offset_frequency" /\ ToneNumerator = 0) => ret = FZero

\* C1, amended: tone_offset_frequency returns the float nfft * (k / ns) - m,
\* which has the sign of k * nfft - m * ns whenever that is nonzero, is
\* exactly 0 when k * nfft = m * ns and nfft is a power of two, and is the
\* correctly rounded (k * nfft - m * ns) / ns when ns is a power of two.
C1_ToneOffset ==
  op = "tone_offset_frequency" =>
    /\ ToneNumerator # 0 => ret.s = Sgn(ToneNumerator)
    /\ (ToneNumerator = 0 /\ IsPow2(args.nfft)) => ret = FZero
    /\ IsPow2(args.tone_num_samples) =>
         ret = FDiv(FFromInt(ToneNumerator), FFromInt(args.tone_num_samples))

\* the scenario of spec.md 8 has been computed and gave exactly 0
C1_Witness ==
  /\ op = "tone_offset_frequency"
  /\ args = ScenarioTone
  /\ ToneNumerator = 0
  /\ ret = FZero

\* C2: when every channel's offset is exactly zero, get_foffs_period raises
\* and so does demodulate_stream: neither returns a period or any rows.
C2_AllZeroFails ==
  /\ (op = "get_foffs_period" /\ \A i \in 1..Len(args.foffs) :
                                    args.foffs[i] = FZero)
       => ret.status = "ValueError"
  /\ (op = "demodulate_stream"
      /\ \A c \in 1..Len(args.self.tone_bins) :
           tone_offset_frequency(args.self.tone_bins[c], args.self.tone_nsamp,
                                 args.self.fft_bins[c], args.self.nfft) = FZero)
       => /\ ret.status \in {"ValueError", "AttributeError"}
          /\ ret.rows = <<>>
          /\ ret.nt = 0

\* demodulate_stream was called with all its attributes present, a
\* non-empty buffer and offsets all zero, and raised get_foffs_period's error
C2_Witness ==
  /\ op = "demodulate_stream"
  /\ StreamAttrs \subseteq args.self.attrs
  /\ Len(args.data) > 0
  /\ \A c \in 1..Len(ret.foffs) : ret.foffs[c] = FZero
  /\ ret.status = "ValueError"

\* The reciprocals den / num of the offsets num / den of a call of
\* get_foffs_period, over the channels with a nonzero offset.
Reciprocals == { q[1] * q[2] : q \in { args.fracs[i] : i \in 1..2 } \ ({0} \X Int) }

SetMax(S) == CHOOSE x \in S : \A y \in S : y <= x

SetMin(S) == CHOOSE x \in S : \A y \in S : x <= y

\* C3, as stated: with a nonzero offset present, the period is the smallest
\* positive reciprocal 1 / offset over the channels.
C3_SmallestPositiveReciprocal ==
  (op = "get_foffs_period" /\ \E r \in Reciprocals : r > 0) =>
    /\ ret.status = "ok"
    /\ ret.nt = SetMin({ r \in Reciprocals : r > 0 })

\* C3, amended: with a nonzero offset present, the period is the largest
\* reciprocal 1 / offset over the channels with a nonzero offset, positive
\* or not, truncated toward zero (so it is the reciprocal or, where the
\* float reciprocal falls short of the integer, one nearer to zero); and
\* demodulate_stream keeps the leading nt * floor(N / nt) rows when the
\* period nt is positive and all N rows when it is negative.
C3_LargestReciprocal ==
  /\ (op = "get_foffs_period" /\ Reciprocals # {}) =>
       LET r == SetMax(Reciprocals) IN
       /\ ret.status = "ok"
       /\ ret.nt \in {r, r - Sgn(r)}
       /\ Abs(r) <= SmallDen => ret.nt = r
  /\ (op = "demodulate_stream" /\ ret.status = "ok") =>
       LET N == Len(args.data) IN
       /\ ret.nt = get_foffs_period(ret.foffs).nt
       /\ ret.nt # 0
       /\ ret.rows = SubSeq(args.data, 1,
                            IF ret.nt > 0 THEN ret.nt * (N \div ret.nt) ELSE N)

\* get_foffs_period was called with two different positive reciprocals and
\* returned the larger one
C3_Witness ==
  /\ op = "get_foffs_period"
  /\ Cardinality({ r \in Reciprocals : r > 0 }) = 2
  /\ ret.status = "ok"
  /\ ret.nt = SetMax(Reciprocals)
  /\ ret.nt > SetMin(Reciprocals)

\* C4, as stated: when all offsets equal 1 / p for a positive integer p,
\* get_foffs_period returns p.
C4_PeriodOfUnitFraction ==
  (op = "get_foffs_period"
   /\ \E p \in 1..MaxDen : args.fracs = <<(<<1, p>>), (<<1, p>>)>>) =>
    /\ ret.status = "ok"
    /\ ret.nt = args.fracs[1][2]

----------------------------------------------------------------------------
(* Exact arithmetic of the spectral estimator and the PCA.                 *)
(*                                                                         *)
(* A real is a rational <<n, d>> in lowest terms with d > 0; QNan is the   *)
(* quotient 0 / 0 of a float division and absorbs every operation.         *)

QNan == <<0, 0>>

Q(n, d) ==
  IF d = 0 THEN QNan
  ELSE LET g == Gcd(Abs(n), Abs(d))
           s == IF d < 0 THEN -1 ELSE 1
       IN  <<(s * n) \div g, (s * d) \div g>>

QInt(n) == <<n, 1>>

QIsNan(a) == a[2] = 0

\* (the common factors are taken out before the products, which keeps the
\* intermediate integers small)
QAdd(a, b) ==
  IF QIsNan(a) \/ QIsNan(b) THEN QNan
  ELSE LET g == Gcd(a[2], b[2])
       IN  Q(a[1] * (b[2] \div g) + b[1] * (a[2] \div g),
             (a[2] \div g) * b[2])

QNeg(a) == <<-a[1], a[2]>>

QSub(a, b) == QAdd(a, QNeg(b))

QMul(a, b) ==
  IF QIsNan(a) \/ QIsNan(b) THEN QNan
  ELSE LET g == Gcd(Abs(a[1]), b[2])
           h == Gcd(Abs(b[1]), a[2])
       IN  Q((a[1] \div g) * (b[1] \div h), (a[2] \div h) * (b[2] \div g))

\* a / b: 0 / 0 is NaN (the only division by zero the estimator makes)
QDiv(a, b) ==
  IF QIsNan(a) \/ QIsNan(b) THEN QNan
  ELSE IF b[1] = 0 THEN Q(a[1], 0)
  ELSE QMul(a, Q(b[2], b[1]))

\* a <= b, a < b, a = 0: comparisons with NaN are false
QLe(a, b) == ~QIsNan(a) /\ ~QIsNan(b) /\ a[1] * b[2] <= b[1] * a[2]

QLt(a, b) == ~QIsNan(a) /\ ~QIsNan(b) /\ a[1] * b[2] < b[1] * a[2]

QSgn(a) == Sgn(a[1])

RECURSIVE QSumFrom(_, _)
QSumFrom(xs, i) ==
  IF i > Len(xs) THEN QInt(0) ELSE QAdd(xs[i], QSumFrom(xs, i + 1))

\* xs.sum() and xs.mean() of a sequence of reals (the mean of none is NaN)
QSum(xs) == QSumFrom(xs, 1)

QMean(xs) == QDiv(QSum(xs), QInt(Len(xs)))

\* A complex number is [re, im, rt]: re + im * sqrt(rt) * i with rt = 1, or
\* rt = 3 for the transforms of length 3 and 6; a zero im has rt = 1.
C(re, im, rt) ==
  IF QIsNan(re) \/ QIsNan(im) THEN [re |-> QNan, im |-> QNan, rt |-> 1]
  ELSE [re |-> re, im |-> im, rt |-> IF im[1] = 0 THEN 1 ELSE rt]

CReal(q) == C(q, QInt(0), 1)

CZero == CReal(QInt(0))

CIsNan(z) == QIsNan(z.re)

\* the common root of two operands of one transform
CRt(a, b) == Max2(a.rt, b.rt)

CAdd(a, b) == C(QAdd(a.re, b.re), QAdd(a.im, b.im), CRt(a, b))

CConj(a) == C(a.re, QNeg(a.im), a.rt)

CMul(a, b) ==
  C(QSub(QMul(a.re, b.re), QMul(QInt(CRt(a, b)), QMul(a.im, b.im))),
    QAdd(QMul(a.re, b.im), QMul(a.im, b.re)),
    CRt(a, b))

\* q * a and a / q for a real q
CScale(q, a) == C(QMul(q, a.re), QMul(q, a.im), a.rt)

CDivQ(a, q) == C(QDiv(a.re, q), QDiv(a.im, q), a.rt)

\* |a|^2
CAbs2(a) == QAdd(QMul(a.re, a.re), QMul(QInt(a.rt), QMul(a.im, a.im)))

RECURSIVE CSumFrom(_, _)
CSumFrom(zs, i) ==
  IF i > Len(zs) THEN CZero ELSE CAdd(zs[i], CSumFrom(zs, i + 1))

CSum(zs) == CSumFrom(zs, 1)

CMean(zs) == CDivQ(CSum(zs), QInt(Len(zs)))

\* The transform lengths whose roots of unity are in these fields.
FftLengths == {1, 2, 3, 4, 6}

\* exp(-2 pi i j / 12) for the multiples j of a twelfth that occur
Unit12(j) ==
  LET h  == Q(1, 2)
      mh == Q(-1, 2)
  IN  CASE j = 0  -> C(QInt(1), QInt(0), 1)
        [] j = 2  -> C(h, mh, 3)
        [] j = 3  -> C(QInt(0), QInt(-1), 1)
        [] j = 4  -> C(mh, mh, 3)
        [] j = 6  -> C(QInt(-1), QInt(0), 1)
        [] j = 8  -> C(mh, h, 3)
        [] j = 9  -> C(QInt(0), QInt(1), 1)
        [] j = 10 -> C(h, h, 3)

\* exp(-2 pi i k t / n), n in FftLengths
Twiddle(n, k, t) == Unit12(((12 \div n) * k * t) % 12)

\* np.fft.fft(a, n)[k]: a is cut or zero-padded to n samples
FftBin(a, n, k) ==
  CSum(Tuple([t \in 1..Min2(Len(a), n) |-> CMul(CReal(a[t]), Twiddle(n, k, t - 1))]))

\* np.fft.fft(a, n)
Fft(a, n) == Tuple([k \in 1..n |-> FftBin(a, n, k - 1)])

----------------------------------------------------------------------------
(* analysis/timeseries/iqnoise.py: full_spectral_helper.                   *)
(* Signals are sequences of reals; a matrix P[row][column] is a sequence   *)
(* (one entry per frequency) of sequences (one entry per segment).         *)

\* Python's None where an integer is expected (pad_to, NFFT)
None == -1

\* seq[a:b] for 0 <= a
PySlice(seq, a, b) == SubSeq(seq, a + 1, Min2(b, Len(seq)))

\* np.resize(x, (n,)) followed by x[len:] = 0, for len(x) < n
ZeroPad(x, n) == Tuple([i \in 1..n |-> IF i <= Len(x) THEN x[i] ELSE QInt(0)])

\* np.arange(0, stop, step) for step > 0
Arange(stop, step) ==
  Tuple([i \in 1..(IF stop <= 0 THEN 0 ELSE (stop + step - 1) \div step) |->
     (i - 1) * step])

\* np.hanning(n) for the lengths whose values are rational:
\* 0.5 - 0.5 * cos(2 pi i / (n - 1)), and [1] for n = 1
Hanning(n) ==
  CASE n = 1 -> <<QInt(1)>>
    [] n = 2 -> <<QInt(0), QInt(0)>>
    [] n = 3 -> <<QInt(0), QInt(1), QInt(0)>>
    [] n = 4 -> <<QInt(0), Q(3, 4), Q(3, 4), QInt(0)>>

\* The segment lengths NFFT for which Hanning is defined.
SegmentLengths == {1, 2, 3, 4}

\* window(np.ones((NFFT,))) for the callables mlab.window_hanning and
\* mlab.window_none
WindowOfOnes(name, NFFT) ==
  IF name = "window_hanning" THEN Hanning(NFFT)
  ELSE Tuple([i \in 1..NFFT |-> QInt(1)])

\* mlab.detrend_none and mlab.detrend_mean
Detrend(name, seg) ==
  IF name = "detrend_mean"
  THEN LET mu == QMean(seg) IN Tuple([i \in 1..Len(seg) |-> QSub(seg[i], mu)])
  ELSE seg

\* whether numpy can broadcast a vector of n against one of m elements
Broadcastable(n, m) == n = m \/ n = 1 \/ m = 1

\* windowVals * seg under numpy's broadcasting
BroadcastMul(w, seg) ==
  LET n == IF Len(w) = 1 THEN Len(seg) ELSE Len(w)
  IN  Tuple([i \in 1..n |-> QMul(w[IF Len(w) = 1 THEN 1 ELSE i],
                           seg[IF Len(seg) = 1 THEN 1 ELSE i])])

\* a[lo:hi] of the rows of a matrix scaled by c (P[lo:hi] *= c)
ScaleRows(P, lo, hi, c) ==
  Tuple([r \in 1..Len(P) |->
     IF lo < r /\ r <= hi
     THEN Tuple([i \in 1..Len(P[r]) |-> CScale(c, P[r][i])])
     ELSE P[r]])

\* P /= q
DivAll(P, q) ==
  Tuple([r \in 1..Len(P) |-> Tuple([i \in 1..Len(P[r]) |-> CDivQ(P[r][i], q)])])

\* np.concatenate((a[k:], a[:k]))
Rotate(a, k) == SubSeq(a, k + 1, Len(a)) \o SubSeq(a, 1, k)

\* the real part kept when a complex value is stored in a float array
RealPart(z) == CReal(z.re)

FshError(e) ==
  [status |-> e, Pxx |-> <<>>, Pyy |-> <<>>, Pxy |-> <<>>, freqs |-> <<>>,
   t |-> <<>>]

\* SegmentFft, were the window applied before the detrend
SegmentFftWindowFirst(sig, start, NFFT, detrend, windowVals, pad_to) ==
  Fft(Detrend(detrend,
              BroadcastMul(windowVals, PySlice(sig, start, start + NFFT))),
      pad_to)

\* lines 216-218: np.fft.fft(windowVals * detrend(sig[start:start + NFFT]),
\* n=pad_to)
SegmentFft(sig, start, NFFT, detrend, windowVals, pad_to) ==
  Fft(BroadcastMul(windowVals,
                   Detrend(detrend, PySlice(sig, start, start + NFFT))),
      pad_to)

\* AutoProducts, were the transform not conjugated
AutoProductsUnconjugated(fx, numFreqs) ==
  Tuple([k \in 1..numFreqs |-> RealPart(CMul(fx[k], fx[k]))])

\* CrossProducts, were the transform of x not conjugated
CrossProductsUnconjugated(fx, fy, numFreqs) ==
  Tuple([k \in 1..numFreqs |-> CMul(fx[k], fy[k])])

\* lines 226-228: column i of Pxx or Pyy (real) and of Pxy, for the
\* transforms fx and fy of segment i
AutoProducts(fx, numFreqs) ==
  Tuple([k \in 1..numFreqs |-> RealPart(CMul(CConj(fx[k]), fx[k]))])

CrossProducts(fx, fy, numFreqs) ==
  Tuple([k \in 1..numFreqs |-> CMul(CConj(fx[k]), fy[k])])

\* the matrix whose column i is cols[i], each of numFreqs entries
FromColumns(cols, numFreqs) ==
  Tuple([k \in 1..numFreqs |-> Tuple([i \in 1..Len(cols) |-> cols[i][k]])])

\* lines 232-249 and 257-259 for one of the three matrices
FshScale(P, norm, numFreqs, scaling_factor, by_freq, Fs) ==
  IF by_freq
  THEN DivAll(ScaleRows(DivAll(P, norm), 1, numFreqs - 1, scaling_factor),
              QInt(Fs))
  ELSE ScaleRows(DivAll(P, norm), 1, numFreqs - 1, scaling_factor)

\* FshOut, were the densities left in the transform's order
FshOutUnrotated(P, two, numFreqs) == P

FshOut(P, two, numFreqs) == IF two THEN Rotate(P, numFreqs \div 2) ELSE P

\* lines 252 and 256
FshFreqs(Fs, pad_to, numFreqs, two) ==
  IF two
  THEN Tuple([k \in 1..numFreqs |->
          IF k <= numFreqs - numFreqs \div 2
          THEN QSub(QMul(Q(Fs, pad_to), QInt(numFreqs \div 2 + k - 1)),
                    QInt(Fs))
          ELSE QMul(Q(Fs, pad_to), QInt(k - 1 - (numFreqs - numFreqs \div 2)))])
  ELSE Tuple([k \in 1..numFreqs |-> QMul(Q(Fs, pad_to), QInt(k - 1))])

\* lines 210-261, once the segments' transforms fxs and fys are known
FshResult(fxs, fys, ind, windowVals, NFFT, Fs, pad_to, two, by_freq) ==
  LET numFreqs == IF two THEN pad_to ELSE pad_to \div 2 + 1
      factor   == IF two THEN QInt(1) ELSE QInt(2)
      norm     == QSum(Tuple([i \in 1..Len(windowVals) |->
                          QMul(windowVals[i], windowVals[i])]))
  IN  [status |-> "ok",
       Pxx |-> FshOut(FshScale(FromColumns(Tuple([i \in 1..Len(ind) |->
                         AutoProducts(fxs[i], numFreqs)]), numFreqs),
                       norm, numFreqs, factor, by_freq, Fs), two, numFreqs),
       Pyy |-> FshOut(FshScale(FromColumns(Tuple([i \in 1..Len(ind) |->
                         AutoProducts(fys[i], numFreqs)]), numFreqs),
                       norm, numFreqs, factor, by_freq, Fs), two, numFreqs),
       Pxy |-> FshOut(FshScale(FromColumns(Tuple([i \in 1..Len(ind) |->
                         CrossProducts(fxs[i], fys[i], numFreqs)]), numFreqs),
                       norm, numFreqs, factor, by_freq, Fs), two, numFreqs),
       freqs |-> FshFreqs(Fs, pad_to, numFreqs, two),
       t |-> Tuple([i \in 1..Len(ind) |->
                QMul(Q(1, Fs), QAdd(QInt(ind[i]), Q(NFFT, 2)))])]

\* lines 207-225: the segments' starts and transforms, for the signals
\* already extended to NFFT samples
FshSegments(x, y, windowVals, NFFT, Fs, detrend, pad_to, two, by_freq, ind) ==
  IF \E i \in 1..Len(ind) :
       \/ ~Broadcastable(Len(windowVals),
                         Len(PySlice(x, ind[i], ind[i] + NFFT)))
       \/ ~Broadcastable(Len(windowVals),
                         Len(PySlice(y, ind[i], ind[i] + NFFT)))
  THEN FshError("ValueError")
  ELSE FshResult(Tuple([i \in 1..Len(ind) |->
                    SegmentFft(x, ind[i], NFFT, detrend, windowVals, pad_to)]),
                 Tuple([i \in 1..Len(ind) |->
                    SegmentFft(y, ind[i], NFFT, detrend, windowVals, pad_to)]),
                 ind, windowVals, NFFT, Fs, pad_to, two, by_freq)

\* full_spectral_helper for real x and y.  window is [name, vals]: a
\* callable by name, or the name "iterable" and the window's values.
\* (With y is x the code reuses fx for fy; the transform of an equal y is
\* the same value.)
full_spectral_helper(x, y, NFFT, Fs, detrend, window, noverlap, pad_to, sides, scale_by_freq) ==
  IF sides \notin {"default", "onesided", "twosided"}
  THEN FshError("ValueError")
  ELSE IF window.name = "iterable" /\ Len(window.vals) # NFFT
  THEN FshError("AssertionError")
  ELSE IF NFFT = noverlap
  THEN FshError("ZeroDivisionError")
  ELSE FshSegments(IF Len(x) < NFFT THEN ZeroPad(x, NFFT) ELSE x,
                   IF Len(y) < NFFT THEN ZeroPad(y, NFFT) ELSE y,
                   IF window.name = "iterable" THEN window.vals
                   ELSE WindowOfOnes(window.name, NFFT),
                   NFFT, Fs, detrend,
                   IF pad_to = None THEN NFFT ELSE pad_to,
                   sides = "twosided",
                   scale_by_freq \in {"None", "True"},
                   IF NFFT < noverlap THEN <<>>
                   ELSE Arange(Max2(Len(x), NFFT) - NFFT + 1, NFFT - noverlap))

----------------------------------------------------------------------------
(* Quadratic surds: the eigenvalues of a 2 x 2 symmetric matrix of         *)
(* rationals are (tr -+ sqrt(disc)) / 2.  Inside one decomposition a       *)
(* number is a pair <<a, b>> of rationals, a + b * sqrt(d), for the fixed  *)
(* rational d >= 0 of that decomposition (b is 0 throughout when sqrt(d)   *)
(* is rational).  A value that leaves a decomposition is put in the        *)
(* normal form [a, s, e], a + s * sqrt(e) with s in {-1, 0, 1} and e not a *)
(* square (e = 0 when s = 0), in which equal numbers are equal records.    *)

RECURSIVE ISqrtIn(_, _, _)
ISqrtIn(n, lo, hi) ==
  IF lo >= hi THEN lo
  ELSE LET mid == (lo + hi + 1) \div 2
       IN  IF mid * mid <= n THEN ISqrtIn(n, mid, hi)
           ELSE ISqrtIn(n, lo, mid - 1)

\* floor(sqrt(n)) for 0 <= n < 2^31
ISqrt(n) == ISqrtIn(n, 0, Min2(n, 46340))

QIsSquare(q) ==
  /\ q[1] >= 0
  /\ ISqrt(q[1]) * ISqrt(q[1]) = q[1]
  /\ ISqrt(q[2]) * ISqrt(q[2]) = q[2]

\* sqrt(q) for a square q
QSqrt(q) == <<ISqrt(q[1]), ISqrt(q[2])>>

\* sqrt(d) as a pair over d
SRoot(d) == IF QIsSquare(d) THEN <<QSqrt(d), QInt(0)>> ELSE <<QInt(0), QInt(1)>>

SRat(q) == <<q, QInt(0)>>

SAdd(x, y) == <<QAdd(x[1], y[1]), QAdd(x[2], y[2])>>

SNeg(x) == <<QNeg(x[1]), QNeg(x[2])>>

SSub(x, y) == SAdd(x, SNeg(y))

SMul(d, x, y) ==
  <<QAdd(QMul(x[1], y[1]), QMul(d, QMul(x[2], y[2]))),
    QAdd(QMul(x[1], y[2]), QMul(x[2], y[1]))>>

\* x / y for y nonzero: y times its conjugate is rational
SDiv(d, x, y) ==
  LET n   == SMul(d, x, <<y[1], QNeg(y[2])>>)
      den == QSub(QMul(y[1], y[1]), QMul(d, QMul(y[2], y[2])))
  IN  <<QDiv(n[1], den), QDiv(n[2], den)>>

\* the normal form of the pair x over d
SVal(d, x) ==
  LET e == QMul(QMul(x[2], x[2]), d) IN
  IF QIsNan(x[1]) \/ QIsNan(e) THEN [a |-> QNan, s |-> 0, e |-> QInt(0)]
  ELSE IF QIsSquare(e)
  THEN [a |-> QAdd(x[1], QMul(QInt(QSgn(x[2])), QSqrt(e))), s |-> 0,
        e |-> QInt(0)]
  ELSE [a |-> x[1], s |-> QSgn(x[2]), e |-> e]

SNan == [a |-> QNan, s |-> 0, e |-> QInt(0)]

\* the normal form of a rational
SValQ(q) == [a |-> q, s |-> 0, e |-> QInt(0)]

\* -1, 0, 1: the sign of a value in normal form (0 for NaN)
SValSgn(v) ==
  IF v.s = 0 \/ QSgn(v.a) = 0 \/ QSgn(v.a) = v.s THEN
    (IF v.s = 0 THEN QSgn(v.a) ELSE v.s)
  ELSE IF QLt(v.e, QMul(v.a, v.a)) THEN QSgn(v.a) ELSE v.s

\* 2 x 2 matrices <<row 1, row 2>> of pairs over d
MatMul(d, A, B) ==
  Tuple([i \in 1..2 |-> Tuple([j \in 1..2 |->
     SAdd(SMul(d, A[i][1], B[1][j]), SMul(d, A[i][2], B[2][j]))])])

\* np.linalg.inv of a matrix of nonzero determinant
MatInv(d, A) ==
  LET det == SSub(SMul(d, A[1][1], A[2][2]), SMul(d, A[1][2], A[2][1]))
  IN  <<(<<SDiv(d, A[2][2], det), SDiv(d, SNeg(A[1][2]), det)>>),
        (<<SDiv(d, SNeg(A[2][1]), det), SDiv(d, A[1][1], det)>>)>>

MatVal(d, A) == Tuple([i \in 1..2 |-> Tuple([j \in 1..2 |-> SVal(d, A[i][j])])])

----------------------------------------------------------------------------
(* analysis/timeseries/iqnoise.py: calculate_pca_noise and pca_noise.      *)

\* Eigh, were the eigenvalues returned in descending order
EighDescending(a, r, c) ==
  LET d    == QAdd(QMul(QSub(a, c), QSub(a, c)), QMul(QInt(4), QMul(r, r)))
      root == SRoot(d)
      half == SRat(Q(1, 2))
      w0   == SMul(d, half, SAdd(SRat(QAdd(a, c)), root))
      w1   == SMul(d, half, SSub(SRat(QAdd(a, c)), root))
      one  == SRat(QInt(1))
      zero == SRat(QInt(0))
  IN  [d |-> d,
       w |-> <<w0, w1>>,
       v |-> IF QSgn(r) # 0
             THEN <<(<<SRat(r), SRat(r)>>),
                    (<<SSub(w0, SRat(a)), SSub(w1, SRat(a))>>)>>
             ELSE IF QLe(c, a)
             THEN <<(<<one, zero>>), (<<zero, one>>)>>
             ELSE <<(<<zero, one>>), (<<one, zero>>)>>]

\* np.linalg.eigh of [[a, r], [r, c]] for rationals a, r, c: the eigenvalues
\* w ascending, as pairs over d = (a - c)^2 + 4 r^2, and a matrix v whose
\* column j is an eigenvector of w[j].  eigh's columns have norm 1 and a
\* sign LAPACK chooses; v has a column of each direction without the
\* normalisation, which no quantity below depends on.
Eigh(a, r, c) ==
  LET d    == QAdd(QMul(QSub(a, c), QSub(a, c)), QMul(QInt(4), QMul(r, r)))
      root == SRoot(d)
      half == SRat(Q(1, 2))
      w0   == SMul(d, half, SSub(SRat(QAdd(a, c)), root))
      w1   == SMul(d, half, SAdd(SRat(QAdd(a, c)), root))
      one  == SRat(QInt(1))
      zero == SRat(QInt(0))
  IN  [d |-> d,
       w |-> <<w0, w1>>,
       v |-> IF QSgn(r) # 0
             THEN <<(<<SRat(r), SRat(r)>>),
                    (<<SSub(w0, SRat(a)), SSub(w1, SRat(a))>>)>>
             ELSE IF QLe(a, c)
             THEN <<(<<one, zero>>), (<<zero, one>>)>>
             ELSE <<(<<zero, one>>), (<<one, zero>>)>>]

\* what calculate_pca_noise returns: (S, evals, evects, angles)
PcaResult(status, S, evals, evects, angles) ==
  [status |-> status, S |-> S, evals |-> evals, evects |-> evects,
   angles |-> angles]

\* lines 133-137 for bin k: the real part of the diagonal of
\* ss = invv . m . v for m = [[pii, piq], [conj(piq), pqq]].  The
\* imaginary part of m is [[0, im], [-im, 0]] times sqrt(piq.rt); ss has its
\* product as imaginary part, which the real array S does not keep.
RotatedPowers(d, v, invv, pii, pqq, piq) ==
  LET re == <<(<<SRat(pii), SRat(piq.re)>>), (<<SRat(piq.re), SRat(pqq)>>)>>
      im == <<(<<SRat(QInt(0)), SRat(piq.im)>>),
              (<<SRat(QNeg(piq.im)), SRat(QInt(0))>>)>>
      ss == [re |-> MatMul(d, MatMul(d, invv, re), v),
             im |-> MatMul(d, MatMul(d, invv, im), v)]
  IN  MatVal(d, ss.re)

\* lines 126-138, once eig[k] = eigh(m) is known for every bin and
\* rot[k] = diag(ss) for bin k
PcaFromEig(nf, eig, rot) ==
  PcaResult("ok",
            Tuple([j \in 1..2 |-> Tuple([k \in 1..nf |-> rot[k][j][j]])]),
            Tuple([j \in 1..2 |-> Tuple([k \in 1..nf |-> SVal(eig[k].d, eig[k].w[j])])]),
            Tuple([i \in 1..2 |-> Tuple([j \in 1..2 |-> Tuple([k \in 1..nf |->
               SVal(eig[k].d, eig[k].v[i][j])])])]),
            Tuple([j \in 1..2 |-> Tuple([k \in 1..nf |->
               <<SVal(eig[k].d, eig[k].v[1][j]),
                 SVal(eig[k].d, eig[k].v[2][j])>>])]))

\* PcaRotate, were every bin projected through its own eigenvectors
PcaRotateOwnBasis(pii, pqq, piq, eig, v, invv) ==
  PcaFromEig(Len(pii), eig,
             Tuple([k \in 1..Len(pii) |->
                RotatedPowers(eig[k].d, eig[k].v, MatInv(eig[k].d, eig[k].v),
                              pii[k], pqq[k], piq[k])]))

\* lines 130-137: v = evects[:, :, 0], invv = inv(v) and the loop
PcaRotate(pii, pqq, piq, eig, v, invv) ==
  PcaFromEig(Len(pii), eig,
             Tuple([k \in 1..Len(pii) |->
                RotatedPowers(eig[1].d, v, invv, pii[k], pqq[k], piq[k])]))

PcaInverse(pii, pqq, piq, eig) ==
  PcaRotate(pii, pqq, piq, eig, eig[1].v, MatInv(eig[1].d, eig[1].v))

\* what is returned when eigh returns NaN for every bin
PcaNan(nf) ==
  PcaResult("ok",
            Tuple([j \in 1..2 |-> Tuple([k \in 1..nf |-> SNan])]),
            Tuple([j \in 1..2 |-> Tuple([k \in 1..nf |-> SNan])]),
            Tuple([i \in 1..2 |-> Tuple([j \in 1..2 |-> Tuple([k \in 1..nf |-> SNan])])]),
            Tuple([j \in 1..2 |-> Tuple([k \in 1..nf |-> <<SNan, SNan>>])]))

\* calculate_pca_noise(pii, pqq, piq) for sequences of equal length of reals
\* pii, pqq and complex piq.  evals[j][k], S[j][k] and evects[i][j][k] are in
\* normal form; angles[j][k] is the pair <<y, x>> of the arguments of
\* arctan2, the angle being arctan2(y, x) mod pi.  lapack says what eigh
\* does with a matrix of NaN: raise "LinAlgError" or return "nan".  The
\* first loop takes the real part of piq (lines 121-122).
calculate_pca_noise(pii, pqq, piq, lapack) ==
  IF Len(pii) = 0 \/ Len(piq) < Len(pii) \/ Len(pqq) < Len(pii)
  THEN PcaResult("IndexError", <<>>, <<>>, <<>>, <<>>)
  ELSE IF \E k \in 1..Len(pii) :
            QIsNan(pii[k]) \/ QIsNan(pqq[k]) \/ CIsNan(piq[k])
  THEN (IF lapack = "LinAlgError"
        THEN PcaResult("LinAlgError", <<>>, <<>>, <<>>, <<>>)
        ELSE PcaNan(Len(pii)))
  ELSE PcaInverse(pii, pqq, piq,
                  Tuple([k \in 1..Len(pii) |-> Eigh(pii[k], piq[k].re, pqq[k])]))

\* pca_noise's NFFT when none is given:
\* int(2 ** (np.floor(np.log2(n)) - 3)), which is 0 below 8 samples
DefaultNFFT(n) ==
  IF NatBitLen(n) - 1 >= 3 THEN 2 ^ (NatBitLen(n) - 4) ELSE 0

\* lines 101-103: the means over the segments
SegmentMeans(h) ==
  IF h.status # "ok" THEN [status |-> h.status]
  ELSE [status |-> "ok",
        pii |-> Tuple([k \in 1..Len(h.Pxx) |-> CMean(h.Pxx[k]).re]),
        pqq |-> Tuple([k \in 1..Len(h.Pyy) |-> CMean(h.Pyy[k]).re]),
        piq |-> Tuple([k \in 1..Len(h.Pxy) |-> CMean(h.Pxy[k])]),
        fr_orig |-> h.freqs]

\* The densities pca_noise passes on (lines 95-103): full_spectral_helper's,
\* averaged over the segments.  d is a sequence of pairs <<real, imag>>.
pca_noise_spectra(d, NFFT, Fs, window, detrend) ==
  SegmentMeans(full_spectral_helper(
    Tuple([i \in 1..Len(d) |-> d[i][1]]), Tuple([i \in 1..Len(d) |-> d[i][2]]),
    IF NFFT = None THEN DefaultNFFT(Len(d)) ELSE NFFT,
    Fs, detrend, window, 0, None, "default", "None"))

\* lines 112-113: what pca_noise returns, (fr, S, evals, evects, angles,
\* piq), for the densities p and c = calculate_pca_noise(...)
PcaNoiseReturn(p, c) ==
  IF c.status # "ok" THEN [status |-> c.status]
  ELSE [status |-> "ok", fr |-> p.fr_orig, S |-> c.S, evals |-> c.evals,
        evects |-> c.evects, angles |-> c.angles, piq |-> p.piq]

PcaNoiseDecompose(p, lapack) ==
  IF p.status # "ok" THEN [status |-> p.status]
  ELSE PcaNoiseReturn(p, calculate_pca_noise(p.pii, p.pqq, p.piq, lapack))

\* pca_noise with use_full_spectral_helper=True and use_log_bins=False
pca_noise(d, NFFT, Fs, window, detrend, lapack) ==
  PcaNoiseDecompose(pca_noise_spectra(d, NFFT, Fs, window, detrend), lapack)

----------------------------------------------------------------------------
(* Calls of the spectral estimator.                                        *)

\* Signals have up to MaxLen integer samples and one of these shapes.
MaxLen == 4

Shapes == {"zero", "ramp", "alternating", "pulse"}

Signal(shape, len) ==
  Tuple([t \in 1..len |->
     QInt(CASE shape = "zero" -> 0
            [] shape = "ramp" -> t - 1
            [] shape = "alternating" -> IF t % 2 = 1 THEN 1 ELSE -1
            [] shape = "pulse" -> IF t = 2 THEN -2 ELSE IF t = 3 THEN 1 ELSE 0)])

\* the pairs of signals of one length: equal signals, zero and nonzero
\* ones, and different ones
ShapePairs ==
  { <<"ramp", "ramp">>, <<"ramp", "pulse">>, <<"pulse", "alternating">>,
    <<"alternating", "zero">>, <<"zero", "zero">> }

SignalPairs ==
  { <<Signal(fg[1], len), Signal(fg[2], len)>> :
      <<fg, len>> \in ShapePairs \X (1..MaxLen) }

\* the sample rates
MaxFs == 2

\* the windows: the two callables, a sequence 1, 2, ... of the segment's
\* length ("exact") and the same sequence one element longer ("long")
WindowKinds == {"window_none", "window_hanning", "exact", "long"}

Window(kind, NFFT) ==
  CASE kind = "exact" ->
         [name |-> "iterable", vals |-> Tuple([i \in 1..NFFT |-> QInt(i)])]
    [] kind = "long" ->
         [name |-> "iterable", vals |-> Tuple([i \in 1..(NFFT + 1) |-> QInt(i)])]
    [] OTHER -> [name |-> kind, vals |-> <<>>]

Detrends == {"detrend_none", "detrend_mean"}

Sides == {"default", "onesided", "twosided", "bothsides"}

PadTos == {None} \cup FftLengths

FshArgs(xy, NFFT, Fs, detrend, window, noverlap, pad_to, sides, sbf) ==
  [x |-> xy[1], y |-> xy[2], NFFT |-> NFFT, Fs |-> Fs, detrend |-> detrend,
   window |-> window, noverlap |-> noverlap, pad_to |-> pad_to,
   sides |-> sides, scale_by_freq |-> sbf]

\* The longest ramp and pulse.
LongPair == <<Signal("ramp", MaxLen), Signal("pulse", MaxLen)>>

\* A ramp and a pulse of different lengths.
UnequalPairs ==
  { <<Signal("ramp", l[1]), Signal("pulse", l[2])>> :
      l \in { m \in (1..MaxLen) \X (1..MaxLen) : m[1] # m[2] } }

\* full_spectral_helper is called
\*   with every pair of signals, segment length, callable or fitting window
\*   and detrend, without overlap or with half a segment of it, and the
\*   defaults otherwise;
\*   with the longest ramp and pulse under every segment length, padding
\*   length, sides, sample rate and scaling;
\*   with them under every segment length, overlap up to one more than
\*   the segment and either sequence as the window;
\*   and with every ramp and pulse of different lengths under every segment
\*   length and the defaults.
FshInputs ==
  { FshArgs(xy, n, 1, dt, Window(w, n), nov * (n \div 2), None, "default",
            "None") :
      <<xy, n, dt, nov, w>> \in SignalPairs \X SegmentLengths \X Detrends
                                  \X (0..1) \X (WindowKinds \ {"long"}) }
  \cup
  { FshArgs(LongPair, n, fs, "detrend_none", Window("exact", n), 0, pad, sd,
            sbf) :
      <<n, fs, pad, sd, sbf>> \in SegmentLengths \X (1..MaxFs) \X PadTos
                                    \X Sides \X {"None", "False"} }
  \cup
  { FshArgs(LongPair, n, 1, "detrend_none", Window(w, n), nov, None, sd,
            "None") :
      <<n, w, nov, sd>> \in
        { t \in SegmentLengths \X {"exact", "long"} \X (0..(MaxLen + 1))
                  \X {"default", "bothsides"} : t[3] <= t[1] + 1 } }
  \cup
  { FshArgs(xy, n, 1, "detrend_none", Window("window_none", n), 0, None,
            "default", "None") :
      <<xy, n>> \in UnequalPairs \X SegmentLengths }

CallFullSpectralHelper ==
  \E a \in FshInputs :
    /\ op = "init"
    /\ op' = "full_spectral_helper"
    /\ args' = a
    /\ ret' = full_spectral_helper(a.x, a.y, a.NFFT, a.Fs, a.detrend,
                                   a.window, a.noverlap, a.pad_to, a.sides,
                                   a.scale_by_freq)

\* pca_noise is called with every pair of signals as real and imaginary
\* part, a segment length or none, the sample rate MaxFs, either callable
\* window and detrend, and either behaviour of eigh on NaN where the
\* window's values are all zero.
PcaNoiseInputs ==
  { [d |-> Tuple([i \in 1..Len(t[1][1]) |-> <<t[1][1][i], t[1][2][i]>>]),
     NFFT |-> t[2], Fs |-> t[3], window |-> Window(t[4], t[2]),
     detrend |-> t[5], lapack |-> t[6]] :
      t \in { u \in SignalPairs \X ({None} \cup SegmentLengths)
                      \X {MaxFs} \X {"window_none", "window_hanning"}
                      \X Detrends \X {"nan", "LinAlgError"} :
                u[6] = "nan" \/ (u[2] = 2 /\ u[4] = "window_hanning") } }

CallPcaNoise ==
  \E a \in PcaNoiseInputs :
    /\ op = "init"
    /\ op' = "pca_noise"
    /\ args' = a
    /\ ret' = pca_noise(a.d, a.NFFT, a.Fs, a.window, a.detrend, a.lapack)

NextSpectral ==
  \/ CallFullSpectralHelper
  \/ CallPcaNoise

SpecSpectral == Init /\ [][NextSpectral]_vars

----------------------------------------------------------------------------
(* Calls of the PCA.                                                       *)

\* the most frequency bins of one call
MaxBins == 2

\* The bins <<pii[k], pqq[k], Re piq[k], Im piq[k]>>: positive semi-definite
\* ones, among them those with |piq|^2 = pii * pqq, and an indefinite one.
PcaBins ==
  { <<0, 0, 0, 0>>, <<1, 1, 0, 0>>, <<4, 1, 0, 0>>, <<1, 1, 1, 0>>,
    <<1, 4, 2, 0>>, <<2, 1, 1, 0>>, <<1, 3, -1, 0>>, <<1, 1, 0, 1>>,
    <<1, 2, 1, 1>>, <<2, 2, -1, 1>>, <<3, 1, 1, -1>>, <<1, 1, 2, 0>> }

PcaBin(t) ==
  [ii |-> QInt(t[1]), qq |-> QInt(t[2]), iq |-> C(QInt(t[3]), QInt(t[4]), 1)]

\* a bin of NaN, as the estimator gives for a window of zeros
NanBin == [ii |-> QNan, qq |-> QNan, iq |-> C(QNan, QNan, 1)]

PcaBinValues == { PcaBin(t) : t \in PcaBins } \cup {NanBin}

\* calculate_pca_noise is called with up to MaxBins bins, with piq as long
\* as pii or one element shorter, and with either behaviour of eigh on NaN
\* where a bin is NaN.
PcaInputs ==
  UNION { { [pii |-> Tuple([k \in 1..n |-> u[1][k].ii]),
             pqq |-> Tuple([k \in 1..n |-> u[1][k].qq]),
             piq |-> Tuple([k \in 1..(n - u[2]) |-> u[1][k].iq]),
             lapack |-> u[3]] :
             u \in { t \in [1..n -> PcaBinValues] \X (0..1)
                             \X {"nan", "LinAlgError"} :
                       /\ t[2] <= n
                       /\ t[3] = "LinAlgError" =>
                            \E k \in 1..n : t[1][k] = NanBin } } :
          n \in 0..MaxBins }

CallCalculatePcaNoise ==
  \E a \in PcaInputs :
    /\ op = "init"
    /\ op' = "calculate_pca_noise"
    /\ args' = a
    /\ ret' = calculate_pca_noise(a.pii, a.pqq, a.piq, a.lapack)

NextPca == CallCalculatePcaNoise

SpecPca == Init /\ [][NextPca]_vars

----------------------------------------------------------------------------
(* Properties of calculate_pca_noise.  The eigenvalues are the exact ones  *)
(* of the matrix, without the rounding of LAPACK.                          *)

\* calculate_pca_noise has returned for bins none of which is NaN
PcaReturned ==
  /\ op = "calculate_pca_noise"
  /\ ret.status = "ok"
  /\ \A k \in 1..Len(args.pii) :
       ~QIsNan(args.pii[k]) /\ ~QIsNan(args.pqq[k]) /\ ~CIsNan(args.piq[k])

\* [[pii[k], piq[k]], [conj(piq[k]), pqq[k]]] is positive semi-definite
PositiveSemiDefinite(k) ==
  /\ QLe(QInt(0), args.pii[k])
  /\ QLe(QInt(0), args.pqq[k])
  /\ QLe(CAbs2(args.piq[k]), QMul(args.pii[k], args.pqq[k]))

\* (a - c)^2 + 4 * b2: the discriminant of [[a, b], [conj(b), c]], |b|^2 = b2
Discriminant(a, c, b2) ==
  QAdd(QMul(QSub(a, c), QSub(a, c)), QMul(QInt(4), b2))

\* the eigenvalues (a + c -+ sqrt(discriminant)) / 2 of that matrix, ascending
EigenvaluesOf(a, c, b2) ==
  LET d == Discriminant(a, c, b2)
  IN  <<SVal(d, <<QMul(Q(1, 2), QAdd(a, c)), Q(-1, 2)>>),
        SVal(d, <<QMul(Q(1, 2), QAdd(a, c)), Q(1, 2)>>)>>

\* the pair over d of a value in normal form
SPair(d, v) ==
  IF v.s = 0 THEN SRat(v.a)
  ELSE <<v.a, QMul(QInt(v.s), QSqrt(QDiv(v.e, d)))>>

\* the discriminant of bin k's matrix with the real part of piq[k]
RealDiscriminant(k) ==
  Discriminant(args.pii[k], args.pqq[k],
               QMul(args.piq[k].re, args.piq[k].re))

\* column j of the returned evects[:, :, k], as pairs over d
EvectColumn(d, j, k) ==
  <<SPair(d, ret.evects[1][j][k]), SPair(d, ret.evects[2][j][k])>>

\* v is a nonzero vector with [[a, r], [r, c]] . v = w * v
IsEigenvector(d, a, r, c, w, v) ==
  /\ SVal(d, SAdd(SMul(d, SRat(a), v[1]), SMul(d, SRat(r), v[2])))
       = SVal(d, SMul(d, w, v[1]))
  /\ SVal(d, SAdd(SMul(d, SRat(r), v[1]), SMul(d, SRat(c), v[2])))
       = SVal(d, SMul(d, w, v[2]))
  /\ SVal(d, v[1]) # SValQ(QInt(0)) \/ SVal(d, v[2]) # SValQ(QInt(0))

\* C6, as stated: for positive semi-definite bins no returned eigenvalue is
\* negative, and the result has a component, besides S, evals, evects and
\* angles, that records whether an eigenvalue was clamped to zero.
C6_ClampedAndRecorded ==
  (PcaReturned /\ \A k \in 1..Len(args.pii) : PositiveSemiDefinite(k)) =>
    /\ \A j \in 1..2, k \in 1..Len(args.pii) : SValSgn(ret.evals[j][k]) >= 0
    /\ DOMAIN ret # {"status", "S", "evals", "evects", "angles"}

\* C7, as stated: the returned eigenvalues of every bin k are those of the
\* Hermitian matrix [[pii[k], piq[k]], [conj(piq[k]), pqq[k]]] of the complex
\* piq[k].
C7_EigenvaluesOfHermitianMatrix ==
  PcaReturned =>
    \A k \in 1..Len(args.pii) :
      LET w == EigenvaluesOf(args.pii[k], args.pqq[k], CAbs2(args.piq[k]))
      IN  ret.evals[1][k] = w[1] /\ ret.evals[2][k] = w[2]

\* C7, corrected: the returned eigenvalues of every bin k are those, in
\* ascending order, of the real symmetric matrix
\* [[pii[k], Re piq[k]], [Re piq[k], pqq[k]]], in which the imaginary part of
\* piq[k] does not appear, and column j of evects[:, :, k] is an eigenvector
\* of that matrix for evals[j, k], the two columns being orthogonal.
C7_EigenvaluesOfRealPartMatrix ==
  PcaReturned =>
    \A k \in 1..Len(args.pii) :
      LET a == args.pii[k]
          c == args.pqq[k]
          r == args.piq[k].re
          d == RealDiscriminant(k)
          w == EigenvaluesOf(a, c, QMul(r, r))
          u == EvectColumn(d, 1, k)
          v == EvectColumn(d, 2, k)
      IN  /\ ret.evals[1][k] = w[1]
          /\ ret.evals[2][k] = w[2]
          /\ SValSgn(SVal(d, SSub(SPair(d, w[2]), SPair(d, w[1])))) >= 0
          /\ IsEigenvector(d, a, r, c, SPair(d, w[1]), u)
          /\ IsEigenvector(d, a, r, c, SPair(d, w[2]), v)
          /\ SVal(d, SAdd(SMul(d, u[1], v[1]), SMul(d, u[2], v[2])))
               = SValQ(QInt(0))

\* calculate_pca_noise returned for a bin whose piq has an imaginary part,
\* and that bin's eigenvalues are not those of the Hermitian matrix
C7_Witness ==
  /\ PcaReturned
  /\ \E k \in 1..Len(args.pii) :
       /\ QSgn(args.piq[k].im) # 0
       /\ ret.evals[1][k] = EigenvaluesOf(args.pii[k], args.pqq[k],
                              QMul(args.piq[k].re, args.piq[k].re))[1]
       /\ ret.evals[1][k] # EigenvaluesOf(args.pii[k], args.pqq[k],
                              CAbs2(args.piq[k]))[1]

\* the returned evects[:, :, 0], as pairs over d
EvectsOfBinZero(d) ==
  <<(<<SPair(d, ret.evects[1][1][1]), SPair(d, ret.evects[1][2][1])>>),
    (<<SPair(d, ret.evects[2][1][1]), SPair(d, ret.evects[2][2][1])>>)>>

\* the real and the imaginary part of M_k = [[pii, piq], [conj(piq), pqq]]
\* (the imaginary part up to the factor sqrt(piq.rt))
RealOfM(k) ==
  <<(<<SRat(args.pii[k]), SRat(args.piq[k].re)>>),
    (<<SRat(args.piq[k].re), SRat(args.pqq[k])>>)>>

ImagOfM(k) ==
  <<(<<SRat(QInt(0)), SRat(args.piq[k].im)>>),
    (<<SRat(QNeg(args.piq[k].im)), SRat(QInt(0))>>)>>

\* C8: for every bin k, S[:, k] is the diagonal of inv(V0) . M_k . V0 for
\* the returned eigenvectors V0 = evects[:, :, 0] of bin 0 and
\* M_k = [[pii[k], piq[k]], [conj(piq[k]), pqq[k]]]: that diagonal is real,
\* and S keeps nothing else of the product.  In closed form, with
\* (a0, r0, c0) the real-part matrix of bin 0, d0 its discriminant and
\* B = (a0 - c0) (pii[k] - pqq[k]) + 4 r0 Re piq[k], the pair is
\* (pii[k] + pqq[k]) / 2 -+ B / (2 sqrt(d0)), or (pii[k], pqq[k]) when d0 = 0.
C8_RotatedIntoBinZeroBasis ==
  PcaReturned =>
    LET d0   == RealDiscriminant(1)
        V0   == EvectsOfBinZero(d0)
        invv == MatInv(d0, V0)
    IN  /\ Len(ret.S) = 2
        /\ \A j \in 1..2 : Len(ret.S[j]) = Len(args.pii)
        /\ \A k \in 1..Len(args.pii) :
             LET re   == MatMul(d0, MatMul(d0, invv, RealOfM(k)), V0)
                 im   == MatMul(d0, MatMul(d0, invv, ImagOfM(k)), V0)
                 half == QMul(Q(1, 2), QAdd(args.pii[k], args.pqq[k]))
                 B    == QAdd(QMul(QSub(args.pii[1], args.pqq[1]),
                                   QSub(args.pii[k], args.pqq[k])),
                              QMul(QInt(4), QMul(args.piq[1].re,
                                                 args.piq[k].re)))
                 x    == QDiv(B, QMul(QInt(2), d0))
             IN  /\ \A j \in 1..2 :
                      /\ ret.S[j][k] = SVal(d0, re[j][j])
                      /\ SVal(d0, im[j][j]) = SValQ(QInt(0))
                 /\ IF QSgn(d0) = 0
                    THEN /\ ret.S[1][k] = SValQ(args.pii[k])
                         /\ ret.S[2][k] = SValQ(args.pqq[k])
                    ELSE /\ ret.S[1][k] = SVal(d0, <<half, QNeg(x)>>)
                         /\ ret.S[2][k] = SVal(d0, <<half, x>>)

\* calculate_pca_noise returned for two bins, and the rotated powers of the
\* second are not that bin's own eigenvalues
C8_Witness ==
  /\ PcaReturned
  /\ Len(args.pii) = 2
  /\ QSgn(args.piq[2].im) # 0
  /\ ret.S[1][1] = ret.evals[1][1]
  /\ ret.S[2][1] = ret.evals[2][1]
  /\ ret.S[1][2] # ret.evals[1][2]
  /\ ret.S[2][2] # ret.evals[2][2]

----------------------------------------------------------------------------
(* Properties of full_spectral_helper and pca_noise.  The densities are    *)
(* the exact ones, without the rounding of the floating-point operations.  *)

\* full_spectral_helper was called with a valid configuration: a known
\* sides, an overlap below the segment length and a window that is callable
\* or has the segment's length, on signals of equal length
ValidFsh ==
  /\ op = "full_spectral_helper"
  /\ args.sides \in {"default", "onesided", "twosided"}
  /\ args.noverlap < args.NFFT
  /\ args.window.name = "iterable" => Len(args.window.vals) = args.NFFT
  /\ Len(args.x) = Len(args.y)

\* pca_noise was called with a segment length
ValidPcaNoise ==
  /\ op = "pca_noise"
  /\ args.NFFT \in SegmentLengths

\* the window's values in the call, and the sum of their squares
WindowVals ==
  IF args.window.name = "iterable" THEN args.window.vals
  ELSE WindowOfOnes(args.window.name, args.NFFT)

WindowEnergy ==
  QSum(Tuple([i \in 1..Len(WindowVals) |-> QMul(WindowVals[i], WindowVals[i])]))

\* the densities pca_noise averaged in the call
AveragedDensities ==
  pca_noise_spectra(args.d, args.NFFT, args.Fs, args.window, args.detrend)

\* pxx and pyy are real and not negative, and |pxy|^2 <= pxx * pyy
Bounded(pxx, pyy, pxy) ==
  /\ ~CIsNan(pxx) /\ pxx.im = QInt(0) /\ QLe(QInt(0), pxx.re)
  /\ ~CIsNan(pyy) /\ pyy.im = QInt(0) /\ QLe(QInt(0), pyy.re)
  /\ QLe(CAbs2(pxy), QMul(pxx.re, pyy.re))

\* C5, as stated: for every valid configuration the auto-densities are real
\* and not negative and |Pxy|^2 <= Pxx * Pyy, at every frequency of every
\* segment and for the averages over the segments that pca_noise takes.
C5_DensitiesBounded ==
  /\ ValidFsh =>
       /\ ret.status = "ok"
       /\ \A k \in 1..Len(ret.Pxx) : \A i \in 1..Len(ret.Pxx[k]) :
            Bounded(ret.Pxx[k][i], ret.Pyy[k][i], ret.Pxy[k][i])
  /\ ValidPcaNoise =>
       LET p == AveragedDensities
       IN  /\ p.status = "ok"
           /\ \A k \in 1..Len(p.pii) :
                Bounded(CReal(p.pii[k]), CReal(p.pqq[k]), p.piq[k])

\* C5, corrected: that holds when the squares of the window's values do not
\* sum to zero, with |Pxy|^2 = Pxx * Pyy in every single segment; when they
\* sum to zero (the Hanning window of two samples) every density is NaN.
C5_DensitiesBoundedUnlessWindowZero ==
  /\ ValidFsh =>
       /\ ret.status = "ok"
       /\ \A k \in 1..Len(ret.Pxx) : \A i \in 1..Len(ret.Pxx[k]) :
            IF QSgn(WindowEnergy) # 0
            THEN /\ Bounded(ret.Pxx[k][i], ret.Pyy[k][i], ret.Pxy[k][i])
                 /\ CAbs2(ret.Pxy[k][i])
                      = QMul(ret.Pxx[k][i].re, ret.Pyy[k][i].re)
            ELSE /\ CIsNan(ret.Pxx[k][i])
                 /\ CIsNan(ret.Pyy[k][i])
                 /\ CIsNan(ret.Pxy[k][i])
  /\ ValidPcaNoise =>
       LET p == AveragedDensities
       IN  /\ p.status = "ok"
           /\ ret.status = "ok" => ret.piq = p.piq
           /\ \A k \in 1..Len(p.pii) :
                IF QSgn(WindowEnergy) # 0
                THEN Bounded(CReal(p.pii[k]), CReal(p.pqq[k]), p.piq[k])
                ELSE QIsNan(p.pii[k]) /\ QIsNan(p.pqq[k]) /\ CIsNan(p.piq[k])

\* pca_noise averaged two segments or more under a window that is not zero,
\* and at some frequency the averaged cross-density is not zero and
\* |piq|^2 < pii * pqq
C5_Witness ==
  /\ ValidPcaNoise
  /\ ret.status = "ok"
  /\ QSgn(WindowEnergy) # 0
  /\ Len(args.d) >= 2 * args.NFFT
  /\ \E k \in 1..Len(ret.piq) :
       /\ QSgn(ret.piq[k].re) # 0
       /\ QLt(CAbs2(ret.piq[k]),
              QMul(AveragedDensities.pii[k], AveragedDensities.pqq[k]))

\* both inputs of the call are the same signal
SameSignal ==
  IF op = "pca_noise" THEN \A t \in 1..Len(args.d) : args.d[t][1] = args.d[t][2]
  ELSE args.x = args.y

\* the three densities of every frequency and segment are one number
EqualDensities ==
  \A k \in 1..Len(ret.Pxx) : \A i \in 1..Len(ret.Pxx[k]) :
    /\ ~CIsNan(ret.Pxx[k][i])
    /\ ret.Pxy[k][i] = ret.Pxx[k][i]
    /\ ret.Pyy[k][i] = ret.Pxx[k][i]

\* in every bin the eigenvalues are 0 and the total power pii + pqq
ZeroAndTotalPower ==
  /\ ret.status = "ok"
  /\ \A k \in 1..Len(ret.fr) :
       /\ ~QIsNan(AveragedDensities.pii[k])
       /\ ret.evals[1][k] = SValQ(QInt(0))
       /\ ret.evals[2][k] = SValQ(QAdd(AveragedDensities.pii[k],
                                       AveragedDensities.pqq[k]))

\* C9, as stated: when both inputs are the same signal, full_spectral_helper
\* returns Pxy = Pxx = Pyy at every frequency and segment, and the
\* decomposition pca_noise makes of the averaged densities has in every bin
\* the eigenvalues 0 and pii + pqq.
C9_IdenticalSignals ==
  /\ (ValidFsh /\ SameSignal) => (ret.status = "ok" /\ EqualDensities)
  /\ (ValidPcaNoise /\ SameSignal) => ZeroAndTotalPower

\* C9, corrected: that holds when the squares of the window's values do not
\* sum to zero; when they do, the densities are NaN, which equals nothing,
\* and pca_noise fails in eigh or returns NaN for the eigenvalues.
C9_IdenticalSignalsUnlessWindowZero ==
  /\ (ValidFsh /\ SameSignal) =>
       /\ ret.status = "ok"
       /\ IF QSgn(WindowEnergy) # 0 THEN EqualDensities
          ELSE \A k \in 1..Len(ret.Pxx) : \A i \in 1..Len(ret.Pxx[k]) :
                 CIsNan(ret.Pxx[k][i])
  /\ (ValidPcaNoise /\ SameSignal) =>
       IF QSgn(WindowEnergy) # 0 THEN ZeroAndTotalPower
       ELSE \/ ret.status = "LinAlgError" /\ args.lapack = "LinAlgError"
            \/ /\ ret.status = "ok"
               /\ args.lapack = "nan"
               /\ \A j \in 1..2 : \A k \in 1..Len(ret.fr) :
                    QIsNan(ret.evals[j][k].a)

\* pca_noise decomposed the densities of a signal, not zero, given as both
\* inputs, and an eigenvalue is the total power, not zero
C9_Witness ==
  /\ ValidPcaNoise
  /\ SameSignal
  /\ ret.status = "ok"
  /\ \E k \in 1..Len(ret.fr) :
       /\ ret.evals[1][k] = SValQ(QInt(0))
       /\ ret.evals[2][k] = SValQ(QMul(QInt(2), ret.piq[k].re))
       /\ QLt(QInt(0), ret.piq[k].re)

\* the segment length the transform pads to, and the number of frequencies
PadTo == IF args.pad_to = None THEN args.NFFT ELSE args.pad_to

NumFreqs == IF args.sides = "twosided" THEN PadTo ELSE PadTo \div 2 + 1

\* conj(fa) * fb at the frequency f of segment i, scaled as a density of row
\* j: fa and fb are bin f * PadTo / Fs, modulo PadTo, of the transforms of the
\* detrended and windowed segment of a and of b
DensityAt(a, b, f, i, j) ==
  LET m      == QMul(f, Q(PadTo, args.Fs))[1] % PadTo
      start  == (i - 1) * (args.NFFT - args.noverlap)
      seg(s) == BroadcastMul(WindowVals,
                  Detrend(args.detrend,
                    PySlice(IF Len(s) < args.NFFT THEN ZeroPad(s, args.NFFT)
                            ELSE s, start, start + args.NFFT)))
      raw    == CMul(CConj(FftBin(seg(a), PadTo, m)), FftBin(seg(b), PadTo, m))
      factor == IF args.sides # "twosided" /\ 1 < j /\ j < NumFreqs
                THEN QInt(2) ELSE QInt(1)
      fs     == IF args.scale_by_freq = "False" THEN QInt(1)
                ELSE QInt(args.Fs)
  IN  CDivQ(CScale(factor, CDivQ(raw, WindowEnergy)), fs)

\* the sequence of rationals fs is strictly increasing
StrictlyIncreasing(fs) ==
  \A j \in 1..(Len(fs) - 1) : QLt(fs[j], fs[j + 1])

\* C10: for every valid configuration the returned frequencies are strictly
\* increasing, Pxx, Pyy and Pxy have one row per frequency, and row j of
\* each is the density at the frequency freqs[j]; pca_noise returns its
\* cross-density and its eigenvalues with one entry per frequency of an
\* increasing axis.
C10_DensitiesAlignedToFrequencies ==
  /\ ValidFsh =>
       /\ ret.status = "ok"
       /\ StrictlyIncreasing(ret.freqs)
       /\ Len(ret.freqs) = NumFreqs
       /\ Len(ret.Pxx) = Len(ret.freqs)
       /\ Len(ret.Pyy) = Len(ret.freqs)
       /\ Len(ret.Pxy) = Len(ret.freqs)
       /\ \A j \in 1..Len(ret.freqs) : \A i \in 1..Len(ret.t) :
            /\ ret.Pxx[j][i] = DensityAt(args.x, args.x, ret.freqs[j], i, j)
            /\ ret.Pyy[j][i] = DensityAt(args.y, args.y, ret.freqs[j], i, j)
            /\ ret.Pxy[j][i] = DensityAt(args.x, args.y, ret.freqs[j], i, j)
  /\ (ValidPcaNoise /\ ret.status = "ok") =>
       /\ StrictlyIncreasing(ret.fr)
       /\ Len(ret.fr) = args.NFFT \div 2 + 1
       /\ Len(ret.piq) = Len(ret.fr)
       /\ \A j \in 1..2 :
            Len(ret.S[j]) = Len(ret.fr) /\ Len(ret.evals[j]) = Len(ret.fr)

\* full_spectral_helper returned two-sided densities of some segment, padded
\* to a length other than the segment's, whose frequencies run from below to
\* above zero and whose cross-density is not zero at a negative frequency
C10_Witness ==
  /\ ValidFsh
  /\ ret.status = "ok"
  /\ args.sides = "twosided"
  /\ args.pad_to \notin {None, args.NFFT}
  /\ Len(ret.t) >= 1
  /\ \E j \in 1..Len(ret.freqs) : QSgn(ret.freqs[j]) > 0
  /\ \E j \in 1..Len(ret.freqs) :
       /\ QSgn(ret.freqs[j]) < 0
       /\ ret.Pxy[j][1] # CZero
       /\ ret.Pxy[j][1] # ret.Pxy[Len(ret.freqs) + 1 - j][1]

----------------------------------------------------------------------------
(* roach/demodulator.py: the Demodulator object, its PFB response table    *)
(* and the single-channel and batch demodulation.                          *)
(*                                                                         *)
(* Offsets and phases are exact rationals here: the playback and FFT       *)
(* lengths below are powers of two, for which tone_offset_frequency's      *)
(* float is the exact quotient.  A phase is kept in turns (cycles), a      *)
(* response sample of the table as the name of its bin, and a product as   *)
(* the list of its factors, so that two outputs are equal exactly when     *)
(* they are the same product.                                              *)

\* the float x as an exact rational, for x a multiple of 2^-OffsetBits (as
\* every offset of a playback length that is a power of two up to
\* 2^OffsetBits is)
OffsetBits == 20

FToQ(x) ==
  CHOOSE q \in { IF y.s = 0 THEN QInt(0)
                 ELSE Q(FTrunc(FMulNat(2 ^ OffsetBits, y)), 2 ^ OffsetBits) :
                 y \in {x} } : TRUE

\* the axis without the final division by 2
WindowFrequencyUnhalved(nresponse, interpolation_factor) ==
  Tuple([j \in 1..nresponse |->
           Q(2 * (j - 1) - nresponse, 2 * interpolation_factor)])

\* (np.arange(-len(response)/2., len(response)/2.) / interpolation_factor) / 2.
WindowFrequency(nresponse, interpolation_factor) ==
  Tuple([j \in 1..nresponse |->
           Q(2 * (j - 1) - nresponse, 4 * interpolation_factor)])

\* np.abs(np.fft.fftshift(np.fft.fft(window, n))) / max: sample j of the
\* normalised magnitude response, kept by name
WindowResponse(nresponse) == Tuple([j \in 1..nresponse |-> [bin |-> j]])

\* compute_pfb_window: an array of nfft * num_taps samples
compute_pfb_window(nfft, num_taps) == nfft * num_taps

\* compute_window_frequency_response(window, interpolation_factor):
\* window.shape[0] * interpolation_factor response samples and their axis
compute_window_frequency_response(nwindow, interpolation_factor) ==
  [normalized_frequency |->
     WindowFrequency(nwindow * interpolation_factor, interpolation_factor),
   response |-> WindowResponse(nwindow * interpolation_factor)]

\* Demodulator.__init__
Demodulator(nfft, num_taps, interpolation_factor, hardware_delay_samples) ==
  LET table == compute_window_frequency_response(
                 compute_pfb_window(nfft, num_taps), interpolation_factor)
  IN  [nfft |-> nfft, num_taps |-> num_taps,
       interpolation_factor |-> interpolation_factor,
       hardware_delay_samples |-> hardware_delay_samples,
       _window_frequency |-> table.normalized_frequency,
       _window_response |-> table.response]

\* the last index j at or after i with xp[j] <= x
RECURSIVE InterpIndex(_, _, _)
InterpIndex(x, xp, i) ==
  IF i < Len(xp) /\ QLe(xp[i + 1], x) THEN InterpIndex(x, xp, i + 1) ELSE i

\* np.interp(x, xp, fp) with its default left and right: fp[0] below the
\* table, fp[-1] above it, and between two entries the value
\* lo + frac * (hi - lo)
Interp(x, xp, fp) ==
  IF QLt(x, xp[1]) THEN [lo |-> fp[1], hi |-> fp[1], frac |-> QInt(0)]
  ELSE IF QLe(xp[Len(xp)], x)
  THEN [lo |-> fp[Len(fp)], hi |-> fp[Len(fp)], frac |-> QInt(0)]
  ELSE LET j == InterpIndex(x, xp, 1)
           frac == QDiv(QSub(x, xp[j]), QSub(xp[j + 1], xp[j]))
       IN  [lo |-> fp[j], hi |-> IF frac = QInt(0) THEN fp[j] ELSE fp[j + 1],
            frac |-> frac]

\* compute_pfb_response: 1 / np.interp(...)
compute_pfb_response(self, normalized_frequency) ==
  [status |-> "ok",
   value |-> [one_over |-> Interp(normalized_frequency,
                                  self._window_frequency,
                                  self._window_response)]]

\* q modulo 1: exp(2j*pi*q) depends on q through its fractional part alone
QMod1(q) == Q(PyMod(q[1], q[2]), q[2])

\* the locals of packet_phase (Python 2: / on integers is floor division)
packet_bins == 1024

packet_counts(nfft) == nfft * packet_bins

chan_counts(nfft, nchan) == PyFloorDiv(packet_counts(nfft), nchan)

\* int(np.log2(chan_counts)) - 1, for chan_counts >= 1
shift(nfft, nchan) == (NatBitLen(chan_counts(nfft, nchan)) - 1) - 1

\* modn taken from the counts of the whole packet
modnOfPacket(nfft, nchan, ns) ==
  LET q == PyFloorDiv(ns, packet_counts(nfft))
  IN  IF q = 0 THEN 1 ELSE q

\* the right shift taken for a remainder
ShiftRightAsModulo(n, k) == PyMod(n, 2 ^ k)

modn(nfft, nchan, ns) ==
  LET q == PyFloorDiv(ns, chan_counts(nfft, nchan))
  IN  IF q = 0 THEN 1 ELSE q

multy(nfft, ns) == PyFloorDiv(ns, nfft)

\* seq_no >> shift, for shift >= 0
ShiftRight(n, k) == PyFloorDiv(n, 2 ^ k)

\* packet_phase(seq_no, foffs, nchan, nfft, ns) for an array foffs of
\* offsets: one unit factor exp(2j*pi*turns) per channel.  It raises where
\* Python does: nchan = 0 divides by zero, chan_counts = 0 makes
\* int(np.log2(0)) overflow, and chan_counts = 1 shifts by -1.
packet_phase(seq_no, foffs, nchan, nfft, ns) ==
  IF nchan = 0 THEN [status |-> "ZeroDivisionError", turns |-> <<>>]
  ELSE IF chan_counts(nfft, nchan) < 0
  THEN [status |-> "ValueError", turns |-> <<>>]
  ELSE IF chan_counts(nfft, nchan) = 0
  THEN [status |-> "OverflowError", turns |-> <<>>]
  ELSE IF shift(nfft, nchan) < 0
  THEN [status |-> "ValueError", turns |-> <<>>]
  ELSE
  LET reduced == PyMod(ShiftRight(seq_no, shift(nfft, nchan)),
                       modn(nfft, nchan, ns))
      factor  == Q(-(reduced * multy(nfft, ns)), modn(nfft, nchan, ns))
  IN  [status |-> "ok",
       turns |-> Tuple([c \in 1..Len(foffs) |-> QMod1(QMul(factor, foffs[c]))])]

\* packet_phase of the last sequence number in place of the first
packet_phase_of_last(seq_nos, foffs, nchan, nfft, ns) ==
  IF seq_nos = <<>> THEN [status |-> "IndexError", turns |-> <<>>]
  ELSE packet_phase(seq_nos[Len(seq_nos)], foffs, nchan, nfft, ns)

\* packet_phase(seq_nos[0], ...): seq_nos[0] of an empty sequence raises
packet_phase_of_first(seq_nos, foffs, nchan, nfft, ns) ==
  IF seq_nos = <<>> THEN [status |-> "IndexError", turns |-> <<>>]
  ELSE packet_phase(seq_nos[1], foffs, nchan, nfft, ns)

\* A sample of demodulated output: the product
\*   wc * exp(1j * (2*pi*turns + phi0.times * phi0.phase)) * x
\* of a PFB correction, a unit complex number and a raw sample.
Sample(wc, turns, phi0, x) ==
  [wc |-> wc, turns |-> QMod1(turns), phi0 |-> phi0, x |-> x]

\* demod *= exp(2j*pi*turns), sample by sample
Turned(demod, turns) ==
  Tuple([t \in 1..Len(demod) |->
           Sample(demod[t].wc, QAdd(demod[t].turns, turns), demod[t].phi0,
                  demod[t].x)])

\* what a call leaves behind: the value returned (or the error raised),
\* the factors of the product in the order they were applied, and the
\* caller's objects as they are after the call
Outcome(status, value, factors, self, data, seq_nos) ==
  [status |-> status, value |-> value, factors |-> factors,
   self |-> self, data |-> data, seq_nos |-> seq_nos]

\* the sequence numbers are recognised in every form but None
IsSupplied(seq_nos) == seq_nos.type # "NoneType"

\* the sequence numbers are recognised when they are a numpy array:
\* type(seq_nos) is np.ndarray
IsNdarray(seq_nos) == seq_nos.type = "ndarray"

\* lines 38-43 of demodulate, demod being the product of line 37
DemodulateCorrections(self, data, demod, foffs, tone_bin, tone_num_samples, nchan, seq_nos) ==
  LET pphase == IF IsNdarray(seq_nos)
                THEN packet_phase_of_first(seq_nos.vals, <<foffs>>, nchan,
                                           self.nfft, tone_num_samples)
                ELSE [status |-> "ok", turns |-> <<QInt(0)>>]
      delay  == IF self.hardware_delay_samples # 0
                THEN Q(self.hardware_delay_samples * tone_bin,
                       tone_num_samples)
                ELSE QInt(0)
  IN  IF pphase.status # "ok"
      THEN Outcome(pphase.status, <<>>, <<>>, self, data, seq_nos)
      ELSE Outcome("ok",
             Turned(Turned(demod, pphase.turns[1]), delay),
             <<"pfb_response", "rotation", "data">>
               \o (IF IsNdarray(seq_nos) THEN <<"packet_phase">> ELSE <<>>)
               \o (IF self.hardware_delay_samples # 0
                   THEN <<"hardware_delay">> ELSE <<>>),
             self, data, seq_nos)

\* line 35-43 of demodulate, foffs being the offset of line 34
DemodulateAt(self, data, foffs, tone_bin, tone_num_samples, tone_phase, nchan, seq_nos) ==
  DemodulateCorrections(self, data,
    Tuple([t \in 1..Len(data) |->
             Sample(compute_pfb_response(self, foffs).value,
                    QNeg(QMul(foffs, QInt(t - 1))),
                    [times |-> -1, phase |-> tone_phase], data[t])]),
    foffs, tone_bin, tone_num_samples, nchan, seq_nos)

\* Demodulator.demodulate
demodulate(self, data, tone_bin, tone_num_samples, tone_phase, fft_bin, nchan, seq_nos) ==
  CHOOSE out \in
    { DemodulateAt(self, data, foffs, tone_bin, tone_num_samples,
                   tone_phase, nchan, seq_nos) :
        foffs \in {FToQ(tone_offset_frequency(tone_bin, tone_num_samples,
                                              fft_bin, self.nfft))} } : TRUE

\* seq_nos[0] where seq_nos is None raises TypeError
packet_phase_of_sequence(seq_nos, foffs, nchan, nfft, ns) ==
  IF seq_nos.type = "NoneType" THEN [status |-> "TypeError", turns |-> <<>>]
  ELSE packet_phase_of_first(seq_nos.vals, foffs, nchan, nfft, ns)

\* wave = np.exp(-1j * (2 * np.pi * np.outer(t, foffs))) for t = arange(nt):
\* nt rows (none when nt is negative), one column per channel, in turns
Wave(foffs, nt) ==
  Tuple([t \in 1..Max2(nt, 0) |->
           Tuple([c \in 1..Len(foffs) |->
                    QMod1(QNeg(QMul(QInt(t - 1), foffs[c])))])])

\* np.lib.stride_tricks.as_strided(wave, shape=data_shape,
\*                                 strides=(0, wave.strides[1])):
\* the stride along the rows is 0, so every row of the view is row 0 of
\* wave.  When wave has no rows the view lies outside wave's buffer and its
\* elements are whatever the memory holds.
WaveMat(wave, data_shape, memory) ==
  Tuple([i \in 1..data_shape[1] |->
           Tuple([c \in 1..data_shape[2] |->
                    IF wave # <<>> /\ c <= Len(wave[1])
                    THEN [defined |-> TRUE, turns |-> wave[1][c]]
                    ELSE [defined |-> FALSE, memory |-> memory]])])

\* create_demod_wave: (wave_mat, pphase, wc)
create_demod_wave(self, data_shape, seq_nos, foffs, nt, memory) ==
  [wave_mat |-> WaveMat(Wave(foffs, nt), data_shape, memory),
   pphase |-> packet_phase_of_sequence(seq_nos, foffs,
                                       self.readout_selection.shape[1],
                                       self.nfft, self.tone_nsamp),
   wc |-> Tuple([c \in 1..Len(foffs) |->
                   compute_pfb_response(self.demodulator, foffs[c]).value])]

\* numexpr.evaluate("pphase * wc * exp(-1j*phi0) * demod_wave * data")
StreamProduct(pphase, wc, phi0, demod_wave, data) ==
  Tuple([i \in 1..Len(data) |->
    Tuple([c \in 1..Len(data[i]) |->
      Sample(wc[c],
             IF demod_wave[i][c].defined
             THEN QAdd(pphase[c], demod_wave[i][c].turns) ELSE pphase[c],
             [times |-> -1, phase |-> phi0[c]],
             IF demod_wave[i][c].defined THEN data[i][c]
             ELSE [memory |-> demod_wave[i][c].memory,
                   times |-> data[i][c]])])])

\* lines 53-54 of demodulate_stream, cdw being what create_demod_wave
\* returned
DemodulateStreamEvaluate(self, data, seq_nos, cdw, rows) ==
  IF cdw.pphase.status # "ok"
  THEN Outcome(cdw.pphase.status, <<>>, <<>>, self, data, seq_nos)
  ELSE Outcome("ok",
         StreamProduct(cdw.pphase.turns, cdw.wc, self.phases, cdw.wave_mat,
                       rows),
         <<"packet_phase", "pfb_response", "tone_phase", "rotation",
           "data">>,
         self, data, seq_nos)

\* lines 52-54 of demodulate_stream, rows being the buffer after line 51
DemodulateStreamProduct(self, data, seq_nos, foffs, nt, rows, memory) ==
  CHOOSE out \in
    { DemodulateStreamEvaluate(self, data, seq_nos, cdw, rows) :
        cdw \in {create_demod_wave(self, <<Len(rows), Len(foffs)>>, seq_nos,
                                   foffs, nt, memory)} } : TRUE

\* the offsets of demodulate_stream's line 48 as exact rationals
StreamOffsets(head) ==
  Tuple([c \in 1..Len(head.foffs) |-> FToQ(head.foffs[c])])

\* lines 52-54 of demodulate_stream after its head (lines 45-51); memory is
\* what the process's memory holds after wave's buffer
DemodulateStreamTail(self, data, seq_nos, head, foffs, memory) ==
  IF head.status # "ok"
  THEN Outcome(head.status, <<>>, <<>>, self, data, seq_nos)
  ELSE DemodulateStreamProduct(self, data, seq_nos, foffs, head.nt,
                               head.rows, memory)

\* lines 52-54 of demodulate_stream after its head, the offsets taken as
\* rationals
DemodulateStreamAfter(self, data, seq_nos, head, memory) ==
  CHOOSE out \in
    { DemodulateStreamTail(self, data, seq_nos, head, foffs, memory) :
        foffs \in {StreamOffsets(head)} } : TRUE

\* Demodulator.demodulate_stream(data, seq_nos), the whole of it
demodulate_stream_values(self, data, seq_nos, memory) ==
  CHOOSE out \in
    { DemodulateStreamAfter(self, data, seq_nos, head, memory) :
        head \in {demodulate_stream(self, data)} } : TRUE

----------------------------------------------------------------------------
(* Calls on a Demodulator.  Each behaviour constructs one object and makes *)
(* one call on it.                                                         *)

\* Objects: nfft in ObjectNffts, 1..MaxTaps taps, an interpolation factor
\* of 1..MaxInterp and a hardware delay of 0..MaxDelay samples.
ObjectNffts == {1, 2, 4}

MaxTaps == 3

MaxInterp == 2

MaxDelay == 1

Demodulators ==
  { Demodulator(n, taps, f, d) :
      <<n, taps, f, d>> \in ObjectNffts \X (1..MaxTaps) \X (1..MaxInterp)
                              \X (0..MaxDelay) }

CallDemodulatorInit ==
  \E self \in Demodulators :
    /\ op = "init"
    /\ op' = "Demodulator"
    /\ args' = [nfft |-> self.nfft, num_taps |-> self.num_taps,
                interpolation_factor |-> self.interpolation_factor,
                hardware_delay_samples |-> self.hardware_delay_samples]
    /\ ret' = self

\* compute_pfb_response is asked for the offsets n / OffsetDen with
\* |n| <= MaxOffsetNum: from inside every table to beyond the widest.
OffsetDen == 8

MaxOffsetNum == 28

CallComputePfbResponse ==
  \E self \in { d \in Demodulators : d.hardware_delay_samples = 0 } :
    \E n \in (-MaxOffsetNum)..MaxOffsetNum :
      /\ op = "init"
      /\ op' = "compute_pfb_response"
      /\ args' = [self |-> self, normalized_frequency |-> Q(n, OffsetDen)]
      /\ ret' = compute_pfb_response(self, Q(n, OffsetDen))

\* demodulate is called on an object of nfft in CallNffts with 1..MaxCallTaps
\* taps and interpolation factor CallInterp, for a tone of a playback length
\* ns = j * nfft (j in PlaybackRatios), a tone bin up to MaxCallBin and one
\* of the two FFT bins next to it, on a buffer of DataLen named samples,
\* with nchan = 1 or as many channels as leave two counts per channel, and
\* with sequence numbers absent, or a list or an array of none or of two
\* numbers up to MaxSeqNo.
CallNffts == {1, 2}

MaxCallTaps == 2

CallInterp == 2

PlaybackRatios == {1, 2, 4}

MaxCallBin == 2

DataLen == 3

MaxSeqNo == 2

SeqNoValues ==
  {<<>>} \cup { <<a, b>> : <<a, b>> \in (0..MaxSeqNo) \X (0..MaxSeqNo) }

SeqNos ==
  {[type |-> "NoneType", vals |-> <<>>]}
    \cup { [type |-> ty, vals |-> v] :
             <<ty, v>> \in {"list", "ndarray"} \X SeqNoValues }

Channels(nfft) == {1, (nfft * packet_bins) \div 2}

Tones(nfft) ==
  { [tone_bin |-> k, tone_num_samples |-> j * nfft,
     fft_bin |-> ((k * nfft) \div (j * nfft)) + dm] :
      <<j, k, dm>> \in { t \in PlaybackRatios \X (0..MaxCallBin) \X (0..1) :
                         t[2] < t[1] * nfft } }

\* (the offset of line 34 is computed once for each tone and kept in args)
CallDemodulate ==
  \E n \in CallNffts :
    \E tone \in Tones(n) :
      \E foffs \in {FToQ(tone_offset_frequency(tone.tone_bin,
                            tone.tone_num_samples, tone.fft_bin, n))} :
        \E taps \in 1..MaxCallTaps, d \in 0..MaxDelay :
          \E nchan \in Channels(n), seq_nos \in SeqNos :
            \E self \in {Demodulator(n, taps, CallInterp, d)} :
              \E data \in {[t \in 1..DataLen |-> t]} :
                /\ op = "init"
                /\ op' = "demodulate"
                /\ args' = [self |-> self, data |-> data,
                            tone_bin |-> tone.tone_bin,
                            tone_num_samples |-> tone.tone_num_samples,
                            tone_phase |-> "tone_phase",
                            fft_bin |-> tone.fft_bin, nchan |-> nchan,
                            seq_nos |-> seq_nos, foffs |-> foffs]
                /\ ret' = DemodulateAt(self, data, foffs, tone.tone_bin,
                                       tone.tone_num_samples, "tone_phase",
                                       nchan, seq_nos)

\* demodulate_stream is called on an object that carries the tone arrays of
\* two channels, their phases, the readout selection (of two channels, or
\* of as many as leave two counts per channel) and a Demodulator, on a
\* buffer of DataLen rows (sample <<i, c>> is row i of channel c), with the
\* sequence numbers in any form, and with either content of the memory
\* that follows an empty array.  args keeps, next to the arguments, what
\* lines 45-51 computed (head, and its offsets as rationals) and the memory
\* content, which the caller does not choose.
Memory == {"heap_a", "heap_b"}

StreamObject(n, ns, c1, c2, nsel) ==
  [attrs |-> InitAttrs \cup StreamAttrs,
   nfft |-> n, tone_nsamp |-> ns,
   tone_bins |-> <<c1[1], c2[1]>>,
   fft_bins |-> <<StreamFftBin(c1, n, ns), StreamFftBin(c2, n, ns)>>,
   phases |-> <<"phase_1", "phase_2">>,
   readout_selection |-> [shape |-> <<nsel>>],
   demodulator |-> Demodulator(n, MaxCallTaps, CallInterp, 0)]

StreamData == [i \in 1..DataLen |-> <<<<i, 1>>, <<i, 2>>>>]

CallDemodulateStreamValues ==
  \E n \in CallNffts, j \in PlaybackRatios :
    \E c1, c2 \in StreamChannels(n, j * n) :
      \E head \in {demodulate_stream(StreamObject(n, j * n, c1, c2, 2),
                                     StreamData)} :
        \E foffs \in {StreamOffsets(head)} :
          \E nsel \in {2} \cup Channels(n) :
            \E seq_nos \in SeqNos, memory \in Memory :
              \E self \in {StreamObject(n, j * n, c1, c2, nsel)} :
                /\ op = "init"
                /\ op' = "demodulate_stream"
                /\ args' = [self |-> self, data |-> StreamData,
                            seq_nos |-> seq_nos, head |-> head,
                            foffs |-> foffs, memory |-> memory]
                /\ ret' = DemodulateStreamTail(self, StreamData, seq_nos,
                                               head, foffs, memory)

NextDemodulate ==
  \/ CallDemodulatorInit
  \/ CallComputePfbResponse
  \/ CallDemodulate
  \/ CallDemodulateStreamValues

SpecDemodulate == Init /\ [][NextDemodulate]_vars

----------------------------------------------------------------------------
(* Properties of the PFB response table (SpecDemodulate).                  *)

First(seq) == seq[1]

Last(seq) == seq[Len(seq)]

OutsideTable(self, x) ==
  QLt(x, First(self._window_frequency)) \/ QLt(Last(self._window_frequency), x)

\* value is the linear interpolation at x between two neighbouring entries
\* of the table
InterpolatedAt(self, x, value) ==
  \E j \in 1..Len(self._window_frequency) :
    /\ value.lo = self._window_response[j]
    /\ QLe(self._window_frequency[j], x)
    /\ \/ value.frac = QInt(0) /\ value.hi = value.lo
             /\ x = self._window_frequency[j]
       \/ /\ j < Len(self._window_frequency)
          /\ value.hi = self._window_response[j + 1]
          /\ QLt(x, self._window_frequency[j + 1])
          /\ x = QAdd(self._window_frequency[j],
                      QMul(value.frac, QSub(self._window_frequency[j + 1],
                                            self._window_frequency[j])))

\* C11: compute_pfb_response fails with an out-of-range error for every
\* normalized offset outside the tabulated span, and returns a linearly
\* interpolated value only for offsets inside it.
C11_OutOfRangeFails ==
  op = "compute_pfb_response" =>
    IF OutsideTable(args.self, args.normalized_frequency)
    THEN ret.status # "ok"
    ELSE /\ ret.status = "ok"
         /\ InterpolatedAt(args.self, args.normalized_frequency,
                           ret.value.one_over)

\* the part of C11 that holds: inside the table the value is the linear
\* interpolation; outside it is the table's first or last response
C11_ClampedOutside ==
  op = "compute_pfb_response" =>
    /\ ret.status = "ok"
    /\ IF OutsideTable(args.self, args.normalized_frequency)
       THEN /\ ret.value.one_over.frac = QInt(0)
            /\ ret.value.one_over.lo
                 = (IF QSgn(args.normalized_frequency) < 0
                    THEN First(args.self._window_response)
                    ELSE Last(args.self._window_response))
       ELSE InterpolatedAt(args.self, args.normalized_frequency,
                           ret.value.one_over)

HalfTaps(self) == Q(self.num_taps, 2)

\* C12: for every FFT length, tap count and interpolation factor, the
\* frequency axis of the PFB response table covers the normalized offsets
\* from -taps/2 to taps/2 and has one entry per response sample.
C12_AxisCoversTaps ==
  op = "Demodulator" =>
    /\ Len(ret._window_frequency) = Len(ret._window_response)
    /\ QLe(First(ret._window_frequency), QNeg(HalfTaps(ret)))
    /\ QLe(HalfTaps(ret), Last(ret._window_frequency))

\* C12 as the code has it: one entry per response sample, nfft * taps *
\* interpolation_factor of them, from -nfft*taps/4 in steps of
\* 1/(2*interpolation_factor) up to one step short of nfft*taps/4.
C12_AxisSpan ==
  op = "Demodulator" =>
    LET f    == ret._window_frequency
        step == Q(1, 2 * ret.interpolation_factor)
        half == Q(ret.nfft * ret.num_taps, 4)
    IN  /\ Len(f) = Len(ret._window_response)
        /\ Len(f) = ret.nfft * ret.num_taps * ret.interpolation_factor
        /\ First(f) = QNeg(half)
        /\ Last(f) = QSub(half, step)
        /\ \A j \in 1..(Len(f) - 1) : f[j + 1] = QAdd(f[j], step)

\* a table that stops short of taps/2, and one that reaches beyond it
C12_Witness ==
  /\ op = "Demodulator"
  /\ ret.nfft = 2
  /\ ret.num_taps = 2
  /\ ret.interpolation_factor = 2
  /\ First(ret._window_frequency) = QInt(-1)
  /\ Last(ret._window_frequency) = Q(3, 4)

----------------------------------------------------------------------------
(* Properties of demodulate and demodulate_stream (SpecDemodulate).        *)

\* the turns of packet_phase for one offset, from its definition: the first
\* sequence number shifted and reduced modulo modn, times the offset, times
\* ns/nfft, over modn, negated
PacketTurns(seq_no, foffs, nchan, nfft, ns) ==
  QNeg(QMul(foffs,
            Q(PyMod(ShiftRight(seq_no, shift(nfft, nchan)),
                    modn(nfft, nchan, ns)) * multy(nfft, ns),
              modn(nfft, nchan, ns))))

\* exp(2j*pi*hardware_delay_samples*tone_bin/tone_num_samples), in turns
DelayTurns(self, tone_bin, ns) == Q(self.hardware_delay_samples * tone_bin, ns)

\* pfb_response(offset) * exp(-i(2*pi*offset*t + initial_phase)) * raw[t],
\* turned further by extra
Rotated(a, t, extra) ==
  Sample(compute_pfb_response(a.self, a.foffs).value,
         QAdd(QNeg(QMul(a.foffs, QInt(t - 1))), extra),
         [times |-> -1, phase |-> a.tone_phase], a.data[t])

\* the factors of demodulate's product, in the order they are applied
FactorsInOrder(a, out, withPacket) ==
  out.factors = <<"pfb_response", "rotation", "data">>
                  \o (IF withPacket THEN <<"packet_phase">> ELSE <<>>)
                  \o (IF a.self.hardware_delay_samples # 0
                      THEN <<"hardware_delay">> ELSE <<>>)

\* the samples of demodulate's output when the packet-phase correction is
\* applied exactly if withPacket
DemodulateAsSpecified(a, out, withPacket) ==
  LET delayed == a.self.hardware_delay_samples # 0
      extra   == QAdd(IF withPacket
                      THEN PacketTurns(a.seq_nos.vals[1], a.foffs, a.nchan,
                                       a.self.nfft, a.tone_num_samples)
                      ELSE QInt(0),
                      IF delayed
                      THEN DelayTurns(a.self, a.tone_bin, a.tone_num_samples)
                      ELSE QInt(0))
  IN  /\ out.status = "ok"
      /\ Len(out.value) = Len(a.data)
      /\ \A t \in 1..Len(a.data) : out.value[t] = Rotated(a, t, extra)

\* C13: demodulate multiplies the rotated samples by the packet-phase
\* correction if and only if sequence numbers are supplied, in whatever
\* sequence form the caller passes them, and by the hardware-delay term if
\* and only if the configured delay is nonzero, in that order; with no
\* sequence numbers and zero delay the output is exactly
\* pfb_response(offset) * exp(-i(2*pi*offset*t + initial_phase)) * raw[t].
C13_CorrectedWheneverSupplied ==
  (op = "demodulate" /\ (IsSupplied(args.seq_nos) => args.seq_nos.vals # <<>>))
    => DemodulateAsSpecified(args, ret, IsSupplied(args.seq_nos))

\* C13 as the code has it: the packet-phase correction is applied exactly
\* when seq_nos is a numpy array (type(seq_nos) is np.ndarray); sequence
\* numbers in a list are ignored like None, and an empty array raises.
C13_CorrectedWhenArray ==
  op = "demodulate" =>
    IF args.seq_nos.type = "ndarray" /\ args.seq_nos.vals = <<>>
    THEN ret.status = "IndexError"
    ELSE /\ DemodulateAsSpecified(args, ret, args.seq_nos.type = "ndarray")
         /\ FactorsInOrder(args, ret, args.seq_nos.type = "ndarray")

\* a call with sequence numbers in an array and a delay, both corrections
\* turning the samples
C13_Witness ==
  /\ op = "demodulate"
  /\ args.seq_nos.type = "ndarray"
  /\ args.self.hardware_delay_samples # 0
  /\ ret.status = "ok"
  /\ ret.factors = <<"pfb_response", "rotation", "data", "packet_phase",
                     "hardware_delay">>
  /\ PacketTurns(args.seq_nos.vals[1], args.foffs, args.nchan,
                 args.self.nfft, args.tone_num_samples) = Q(-1, 2)
  /\ DelayTurns(args.self, args.tone_bin, args.tone_num_samples) = Q(1, 4)
  /\ ret.value[1].turns = Q(3, 4)

\* the sequence numbers with everything after the first replaced by tail
WithLater(seq_nos, tail) ==
  [seq_nos EXCEPT !.vals = IF seq_nos.vals = <<>> THEN <<>>
                           ELSE <<seq_nos.vals[1]>> \o tail]

\* what may follow the first sequence number of another capture
LaterSeqNos ==
  {<<>>} \cup { <<b>> : b \in 0..MaxSeqNo }
         \cup { <<b, b>> : b \in 0..MaxSeqNo }

\* the call of args made again with other sequence numbers
Recalled(seq_nos) ==
  IF op = "demodulate"
  THEN DemodulateAt(args.self, args.data, args.foffs, args.tone_bin,
                    args.tone_num_samples, args.tone_phase, args.nchan,
                    seq_nos)
  ELSE DemodulateStreamTail(args.self, args.data, seq_nos, args.head,
                            args.foffs, args.memory)

\* the turns by which sample t of channel c exceeds its rotation: the part
\* of the phase that the packet-phase correction (and the delay) put in
CorrectionTurns(t, c) ==
  IF op = "demodulate"
  THEN QMod1(QAdd(ret.value[t].turns, QMul(args.foffs, QInt(t - 1))))
  ELSE ret.value[t][c].turns

DemodulatedChannels == IF op = "demodulate" THEN 1 ELSE Len(args.foffs)

\* C14: the packet-phase correction is one factor per channel that depends
\* on the sequence numbers only through the first: two captures that agree
\* on the buffer, the tone metadata and the first sequence number and differ
\* in the later ones produce identical output, and within a capture the
\* same factor multiplies every time sample.
C14_OnlyFirstSequenceNumber ==
  (op \in {"demodulate", "demodulate_stream"} /\ args.seq_nos.vals # <<>>) =>
    /\ \A tail \in LaterSeqNos :
         /\ Recalled(WithLater(args.seq_nos, tail)).status = ret.status
         /\ Recalled(WithLater(args.seq_nos, tail)).value = ret.value
    /\ ret.status = "ok" =>
         \A c \in 1..DemodulatedChannels :
           \A t \in 1..Len(ret.value) :
             CorrectionTurns(t, c) = CorrectionTurns(1, c)

\* a batch call whose two channels get different corrections from a first
\* sequence number of 1, whatever follows it
C14_Witness ==
  /\ op = "demodulate_stream"
  /\ ret.status = "ok"
  /\ args.seq_nos.vals = <<1, 0>>
  /\ args.head.nt > 0
  /\ Len(ret.value) > 1
  /\ ret.value[1][1].turns = Q(1, 2)
  /\ ret.value[1][2].turns = QInt(0)
  /\ ret.value[Len(ret.value)][1].turns = Q(1, 2)

----------------------------------------------------------------------------
(* Sequences of calls on one object (SpecCalls).  A caller holds an object *)
(* that has the Demodulator's attributes and the stream attributes, a      *)
(* two-channel sample buffer and the sequence numbers, and calls           *)
(* demodulate (on one column of the buffer, a view of it) and              *)
(* demodulate_stream up to MaxCalls times.  args is what the caller holds  *)
(* after the last call, with that call's inputs; ret is what it returned.  *)

MaxCalls == 2

CallerObject(n, ns, c1, c2, nsel, d) ==
  [attrs |-> InitAttrs \cup StreamAttrs,
   nfft |-> n, num_taps |-> MaxCallTaps, interpolation_factor |-> CallInterp,
   hardware_delay_samples |-> d,
   _window_frequency |-> Demodulator(n, MaxCallTaps, CallInterp, d)._window_frequency,
   _window_response |-> Demodulator(n, MaxCallTaps, CallInterp, d)._window_response,
   tone_nsamp |-> ns,
   tone_bins |-> <<c1[1], c2[1]>>,
   fft_bins |-> <<StreamFftBin(c1, n, ns), StreamFftBin(c2, n, ns)>>,
   phases |-> <<"phase_1", "phase_2">>,
   readout_selection |-> [shape |-> <<nsel>>],
   demodulator |-> Demodulator(n, MaxCallTaps, CallInterp, d)]

\* the sequence numbers a caller holds: none, or <<1, 0>> in a list or an
\* array
CallerSeqNos ==
  { s \in SeqNos : s.type = "NoneType" \/ s.vals = <<1, 0>> }

\* data[:, c]
Column(data, c) == Tuple([i \in 1..Len(data) |-> data[i][c]])

\* the buffer after a call that left column c as col
WithColumn(data, c, col) ==
  Tuple([i \in 1..Len(data) |-> [data[i] EXCEPT ![c] = col[i]]])

CallerSetup ==
  \E n \in CallNffts, j \in PlaybackRatios, d \in 0..MaxDelay :
    \E c1, c2 \in StreamChannels(n, j * n), seq_nos \in CallerSeqNos :
      /\ op = "init"
      /\ op' = "setup"
      /\ args' = [self |-> CallerObject(n, j * n, c1, c2,
                                        (n * packet_bins) \div 2, d),
                  data |-> StreamData, seq_nos |-> seq_nos,
                  calls |-> 0, call |-> <<>>]
      /\ ret' = <<>>

\* demodulate(data[:, c], tone_bins[c], tone_nsamp, phases[c], fft_bins[c],
\*            nchan, seq_nos) on the caller's object
CallerDemodulate ==
  /\ op # "init"
  /\ args.calls < MaxCalls
  /\ \E c \in 1..2 :
       \E out \in {demodulate(args.self, Column(args.data, c),
                              args.self.tone_bins[c], args.self.tone_nsamp,
                              args.self.phases[c], args.self.fft_bins[c],
                              args.self.readout_selection.shape[1],
                              args.seq_nos)} :
         /\ op' = "demodulate"
         /\ args' = [self |-> out.self,
                     data |-> WithColumn(args.data, c, out.data),
                     seq_nos |-> out.seq_nos, calls |-> args.calls + 1,
                     call |-> <<"demodulate", c>>]
         /\ ret' = [status |-> out.status, value |-> out.value]

\* demodulate_stream(data, seq_nos) on the caller's object; the memory
\* behind an empty wave holds what it happens to hold
CallerDemodulateStream ==
  /\ op # "init"
  /\ args.calls < MaxCalls
  /\ \E memory \in Memory :
       \E out \in {demodulate_stream_values(args.self, args.data,
                                            args.seq_nos, memory)} :
         /\ op' = "demodulate_stream"
         /\ args' = [self |-> out.self, data |-> out.data,
                     seq_nos |-> out.seq_nos, calls |-> args.calls + 1,
                     call |-> <<"demodulate_stream">>]
         /\ ret' = [status |-> out.status, value |-> out.value]

NextCalls ==
  \/ CallerSetup
  \/ CallerDemodulate
  \/ CallerDemodulateStream

SpecCalls == Init /\ [][NextCalls]_vars

\* a call leaves the caller's buffer, sequence numbers and object (its
\* configuration and response table included) as they were
CallIsPure ==
  op # "init" =>
    /\ args'.self = args.self
    /\ args'.data = args.data
    /\ args'.seq_nos = args.seq_nos

\* a call that repeats the previous call returns what that call returned
CallIsRepeatable == (op # "init" /\ args'.call = args.call) => ret' = ret

\* C15: demodulate and demodulate_stream are pure: the sample buffer, the
\* sequence numbers and the Demodulator's configuration and response table
\* are unchanged after any sequence of calls, and two calls with equal
\* inputs return equal outputs.
C15_PureAndRepeatable == [][CallIsPure /\ CallIsRepeatable]_vars

\* the part of C15 that holds: no call changes what the caller holds
C15_Pure == [][CallIsPure]_vars

----------------------------------------------------------------------------
(* Errors of the spectral estimator.                                       *)

\* a segment, window and overlap that do not fit together, or a sides
\* value that is none of the three
InvalidCombination(a) ==
  \/ a.noverlap >= a.NFFT
  \/ (a.window.name = "iterable" /\ Len(a.window.vals) # a.NFFT)
  \/ a.sides \notin {"default", "onesided", "twosided"}

\* the call raised, and returned nothing
NoResult(r) ==
  /\ r.status # "ok"
  /\ r.Pxx = <<>> /\ r.Pyy = <<>> /\ r.Pxy = <<>>
  /\ r.freqs = <<>> /\ r.t = <<>>

\* C16: full_spectral_helper rejects every invalid combination (an overlap
\* of the segment length or more, a window sequence of another length than
\* the segment, an unknown sides value) with an error, and returns no
\* result then.
C16_InvalidCombinationRejected ==
  (op = "full_spectral_helper" /\ InvalidCombination(args)) => NoResult(ret)

\* what holds of C16: the combinations other than an overlap greater than
\* the segment length are rejected
C16_RejectedUnlessOverlapExceeds ==
  (op = "full_spectral_helper" /\ InvalidCombination(args)
     /\ args.noverlap <= args.NFFT) => NoResult(ret)

\* C17: when the two signals differ in length, full_spectral_helper fails
\* and returns no densities.
C17_UnequalLengthsRejected ==
  (op = "full_spectral_helper" /\ Len(args.x) # Len(args.y)) => NoResult(ret)

\* what holds of C17: a y longer than x is never rejected (the segments are
\* cut by x's length, and the rest of y is not read)
C17_LongerSecondSignalAccepted ==
  (op = "full_spectral_helper" /\ Len(args.x) # Len(args.y)
     /\ args.NFFT > 1 /\ Len(args.y) >= Len(args.x)) => ret.status = "ok"

----------------------------------------------------------------------------
(* analysis/timeseries/iqnoise.py: auto_auto_cross and                     *)
(* pca_noise_with_errors, which take their densities from matplotlib's     *)
(* mlab.psd and mlab.csd.  full_spectral_helper is "based on matplotlib    *)
(* mlab module" (line 140): mlab's densities are taken to be               *)
(* full_spectral_helper's, averaged over the segments.  mlab's own         *)
(* defaults are noverlap=0 and pad_to=None.  binning.log_bin is kept as    *)
(* the call that is made of it.                                            *)

\* the densities of mlab's helper for x and y, averaged over the segments
mlab_spectra(x, y, NFFT, Fs, detrend, window, noverlap, pad_to, sides) ==
  SegmentMeans(full_spectral_helper(x, y, NFFT, Fs, detrend, window,
                                    noverlap, pad_to, sides, "None"))

\* mlab.psd(x, NFFT, Fs, detrend, window, noverlap, pad_to, sides):
\* (Pxx, freqs)
mlab_psd(x, NFFT, Fs, detrend, window, noverlap, pad_to, sides) ==
  CHOOSE out \in
    { IF h.status # "ok" THEN [status |-> h.status]
      ELSE [status |-> "ok", P |-> h.pii, f |-> h.fr_orig] :
        h \in {mlab_spectra(x, x, NFFT, Fs, detrend, window, noverlap,
                            pad_to, sides)} } : TRUE

\* mlab.csd(x, y, NFFT, Fs, detrend, window, noverlap, pad_to, sides):
\* (Pxy, freqs)
mlab_csd(x, y, NFFT, Fs, detrend, window, noverlap, pad_to, sides) ==
  CHOOSE out \in
    { IF h.status # "ok" THEN [status |-> h.status]
      ELSE [status |-> "ok", P |-> h.piq, f |-> h.fr_orig] :
        h \in {mlab_spectra(x, y, NFFT, Fs, detrend, window, noverlap,
                            pad_to, sides)} } : TRUE

\* seq[1:-1]
PyInner(seq) == SubSeq(seq, 2, Len(seq) - 1)

\* binning.log_bin(f, bins_per_decade, S_aa, S_bb, S_ab): the call
log_bin(f, bins_per_decade, S_aa, S_bb, S_ab) ==
  [call |-> "log_bin", f |-> f, bins_per_decade |-> bins_per_decade,
   data |-> <<S_aa, S_bb, S_ab>>]

\* the namedtuple AutoAutoCross
AutoAutoCross(f, S_aa, S_bb, S_ab) ==
  [status |-> "ok", f |-> f, S_aa |-> S_aa, S_bb |-> S_bb, S_ab |-> S_ab]

\* lines 69-70: the AutoAutoCross of the f and (S_aa, S_bb, S_ab) that the
\* call b of log_bin returns
AacBinned(b) == [status |-> "ok", log_bin |-> b]

\* lines 63-70, for what the three mlab calls returned
AacReturn(aa, bb, ab, binned, bins_per_decade) ==
  IF aa.status # "ok" THEN [status |-> aa.status]
  ELSE IF bb.status # "ok" THEN [status |-> bb.status]
  ELSE IF ab.status # "ok" THEN [status |-> ab.status]
  ELSE IF binned
  THEN AacBinned(log_bin(PyInner(ab.f), bins_per_decade, PyInner(aa.P),
                         PyInner(bb.P), PyInner(ab.P)))
  ELSE AutoAutoCross(ab.f, aa.P, bb.P, ab.P)

\* lines 57-58
AacNFFT(a, NFFT) == IF NFFT = None THEN DefaultNFFT(Len(a)) ELSE NFFT

\* AacNoverlap, were no overlap the default
AacNoverlapZero(NFFT, noverlap) == IF noverlap = None THEN 0 ELSE noverlap

\* lines 59-60
AacNoverlap(NFFT, noverlap) ==
  IF noverlap = None THEN NFFT \div 2 ELSE noverlap

\* lines 61-70, NFFT and noverlap being numbers
AacSpectra(a, b, sample_rate, NFFT, detrend, window, noverlap, binned, bins_per_decade, kwds) ==
  CHOOSE out \in
    { AacReturn(t[1], t[2], t[3], binned, bins_per_decade) :
        t \in { <<mlab_psd(a, NFFT, sample_rate, detrend, window, noverlap,
                           kwds.pad_to, kwds.sides),
                  mlab_psd(b, NFFT, sample_rate, detrend, window, noverlap,
                           kwds.pad_to, kwds.sides),
                  mlab_csd(a, b, NFFT, sample_rate, detrend, window,
                           noverlap, kwds.pad_to, kwds.sides)>> } } : TRUE

\* lines 57-60
AacDefaults(a, b, sample_rate, NFFT, detrend, window, noverlap, binned, bins_per_decade, kwds) ==
  CHOOSE out \in
    { AacSpectra(a, b, sample_rate, NFFT, detrend, window, nov, binned,
                 bins_per_decade, kwds) :
        nov \in {AacNoverlap(NFFT, noverlap)} } : TRUE

\* auto_auto_cross(a, b, sample_rate, NFFT, detrend, window, noverlap,
\* binned, bins_per_decade, **kwds) for real a and b; kwds is
\* [pad_to, sides], what mlab takes when they are not passed being None
\* and "default"
auto_auto_cross(a, b, sample_rate, NFFT, detrend, window, noverlap, binned, bins_per_decade, kwds) ==
  CHOOSE out \in
    { AacDefaults(a, b, sample_rate, n, detrend, window, noverlap, binned,
                  bins_per_decade, kwds) :
        n \in {AacNFFT(a, NFFT)} } : TRUE

\* lines 78-80: the three densities and the frequencies of the last call
PcaWithErrorsSpectra(pii, pqq, piq) ==
  IF pii.status # "ok" THEN [status |-> pii.status]
  ELSE IF pqq.status # "ok" THEN [status |-> pqq.status]
  ELSE IF piq.status # "ok" THEN [status |-> piq.status]
  ELSE [status |-> "ok", pii |-> pii.P, pqq |-> pqq.P, piq |-> piq.P,
        pf |-> piq.f]

\* lines 88-90: (pf, S, evals, evects, angles, (pii, piq, piq),
\* np.ones_like(pf), np.vstack((pqq**2 / n_averaged, pii**2 / n_averaged)))
PcaWithErrorsReturn(p, c, n_averaged) ==
  IF c.status # "ok" THEN [status |-> c.status]
  ELSE [status |-> "ok", fr |-> p.pf, S |-> c.S, evals |-> c.evals,
        evects |-> c.evects, angles |-> c.angles,
        spectra |-> <<p.pii, p.piq, p.piq>>,
        counts |-> Tuple([k \in 1..Len(p.pf) |-> QInt(1)]),
        variance |->
          <<Tuple([k \in 1..Len(p.pqq) |->
               QDiv(QMul(p.pqq[k], p.pqq[k]), n_averaged)]),
            Tuple([k \in 1..Len(p.pii) |->
               QDiv(QMul(p.pii[k], p.pii[k]), n_averaged)])>>]

\* line 88, for the densities p
PcaWithErrorsDecompose(p, n_averaged, lapack) ==
  IF p.status # "ok" THEN [status |-> p.status]
  ELSE CHOOSE out \in
         { PcaWithErrorsReturn(p, c, n_averaged) :
             c \in {calculate_pca_noise(p.pii, p.pqq, p.piq, lapack)} } : TRUE

\* lines 76-90 with the overlap and padding that reach mlab's helper
PcaWithErrorsAt(re, im, NFFT, Fs, window, detrend, lapack, noverlap, pad_to) ==
  IF NFFT = 0 THEN [status |-> "ZeroDivisionError"]
  ELSE CHOOSE out \in
         { PcaWithErrorsDecompose(p, Q(Len(re), NFFT), lapack) :
             p \in { PcaWithErrorsSpectra(
                       mlab_psd(re, NFFT, Fs, detrend, window, noverlap,
                                pad_to, "default"),
                       mlab_psd(im, NFFT, Fs, detrend, window, noverlap,
                                pad_to, "default"),
                       mlab_csd(re, im, NFFT, Fs, detrend, window, noverlap,
                                pad_to, "default")) } } : TRUE

\* pca_noise_with_errors(d, NFFT, Fs, window, detrend, use_log_bins=False);
\* d is a sequence of pairs <<real, imag>>.  The calls of lines 78-80 pass
\* neither noverlap nor pad_to.
pca_noise_with_errors(d, NFFT, Fs, window, detrend, lapack) ==
  PcaWithErrorsAt(Tuple([i \in 1..Len(d) |-> d[i][1]]),
                  Tuple([i \in 1..Len(d) |-> d[i][2]]),
                  NFFT, Fs, window, detrend, lapack, 0, None)

----------------------------------------------------------------------------
(* Calls of the entry points (SpecEntry).                                  *)

\* bins_per_decade when it is not passed (line 16)
DefaultBinsPerDecade == 30

AacArgs(xy, NFFT, window, noverlap, binned, pad_to, sides) ==
  [a |-> xy[1], b |-> xy[2], sample_rate |-> MaxFs, NFFT |-> NFFT,
   detrend |-> "detrend_none", window |-> window, noverlap |-> noverlap,
   binned |-> binned, bins_per_decade |-> DefaultBinsPerDecade,
   kwds |-> [pad_to |-> pad_to, sides |-> sides]]

\* auto_auto_cross is called
\*   with every pair of signals, a segment length or none, half a segment
\*   of overlap by default or none, binned or not, one- or two-sided;
\*   and with the longest ramp and pulse under every segment length and
\*   padding length, unbinned.
AacInputs ==
  { AacArgs(t[1], t[2], Window("window_none", AacNFFT(t[1][1], t[2])), t[3],
            t[4], None, t[5]) :
      t \in SignalPairs \X ({None} \cup SegmentLengths) \X {None, 0}
              \X BOOLEAN \X {"default", "twosided"} }
  \cup
  { AacArgs(LongPair, t[1], Window("window_hanning", t[1]), None, FALSE,
            t[2], "default") :
      t \in SegmentLengths \X PadTos }

CallAutoAutoCross ==
  \E a \in AacInputs :
    /\ op = "init"
    /\ op' = "auto_auto_cross"
    /\ args' = a
    /\ ret' = auto_auto_cross(a.a, a.b, a.sample_rate, a.NFFT, a.detrend,
                              a.window, a.noverlap, a.binned,
                              a.bins_per_decade, a.kwds)

\* pca_noise_with_errors is called with every pair of signals as real and
\* imaginary part, every segment length, the sample rate MaxFs, either
\* callable window and detrend, and either behaviour of eigh on NaN where
\* the window's values are all zero.
PcaWithErrorsInputs ==
  { [d |-> Tuple([i \in 1..Len(t[1][1]) |-> <<t[1][1][i], t[1][2][i]>>]),
     NFFT |-> t[2], Fs |-> t[3], window |-> Window(t[4], t[2]),
     detrend |-> t[5], lapack |-> t[6]] :
      t \in { u \in SignalPairs \X SegmentLengths
                      \X {MaxFs} \X {"window_none", "window_hanning"}
                      \X Detrends \X {"nan", "LinAlgError"} :
                u[6] = "nan" \/ (u[2] = 2 /\ u[4] = "window_hanning") } }

CallPcaNoiseWithErrors ==
  \E a \in PcaWithErrorsInputs :
    /\ op = "init"
    /\ op' = "pca_noise_with_errors"
    /\ args' = a
    /\ ret' = pca_noise_with_errors(a.d, a.NFFT, a.Fs, a.window, a.detrend,
                                    a.lapack)

NextEntry ==
  \/ CallAutoAutoCross
  \/ CallPcaNoiseWithErrors
  \/ CallPcaNoise

SpecEntry == Init /\ [][NextEntry]_vars

----------------------------------------------------------------------------
(* What auto_auto_cross passes to the binning, and the entry points'       *)
(* overlap and padding.                                                    *)

\* the same call of auto_auto_cross, unbinned
Unbinned ==
  auto_auto_cross(args.a, args.b, args.sample_rate, args.NFFT, args.detrend,
                  args.window, args.noverlap, FALSE, args.bins_per_decade,
                  args.kwds)

\* a binned call that returned
BinnedCall == op = "auto_auto_cross" /\ args.binned /\ ret.status = "ok"

IsZeroFrequency(q) == q = QInt(0)

IsNyquist(q, sample_rate) == q = Q(sample_rate, 2) \/ q = Q(-sample_rate, 2)

\* C18: with binned=True, auto_auto_cross removes exactly the
\* zero-frequency bin and the Nyquist-frequency bin, the same index range
\* from the frequencies and the three densities, before log binning: every
\* other bin is passed to the binning and neither of those two is.  (Stated
\* for the calls that pass mlab no sides, whose output is one-sided.)
C18_DropsDcAndNyquist ==
  (BinnedCall /\ args.kwds.sides = "default") =>
    \E u \in {Unbinned} :
      \E lo \in 1..(Len(u.f) + 1), hi \in 0..Len(u.f) :
        /\ ret.log_bin.f = SubSeq(u.f, lo, hi)
        /\ ret.log_bin.data = <<SubSeq(u.S_aa, lo, hi), SubSeq(u.S_bb, lo, hi),
                             SubSeq(u.S_ab, lo, hi)>>
        /\ \A k \in 1..Len(u.f) :
             (lo <= k /\ k <= hi) <=>
               ~(IsZeroFrequency(u.f[k]) \/ IsNyquist(u.f[k], args.sample_rate))

\* what holds of C18: the first and the last bin are removed, from the
\* frequencies and from the three densities, and with one-sided output of
\* an even number of points these are the zero-frequency and the Nyquist
\* bin
C18_DropsFirstAndLast ==
  BinnedCall =>
    \E u \in {Unbinned} :
      /\ ret.log_bin.f = PyInner(u.f)
      /\ ret.log_bin.data = <<PyInner(u.S_aa), PyInner(u.S_bb), PyInner(u.S_ab)>>
      /\ (args.kwds.sides = "default" /\ AacNFFT(args.a, args.NFFT) % 2 = 0) =>
            /\ IsZeroFrequency(u.f[1])
            /\ IsNyquist(u.f[Len(u.f)], args.sample_rate)
            /\ \A k \in 2..(Len(u.f) - 1) :
                 ~(IsZeroFrequency(u.f[k]) \/ IsNyquist(u.f[k], args.sample_rate))

\* the real and the imaginary parts of d
RealOf(d) == Tuple([i \in 1..Len(d) |-> d[i][1]])

ImagOf(d) == Tuple([i \in 1..Len(d) |-> d[i][2]])

\* what the entry point of the state returns when the estimator runs with
\* the overlap nov(NFFT) and the padding length NFFT
AacWith(overlap, NFFT) ==
  auto_auto_cross(args.a, args.b, args.sample_rate, NFFT, args.detrend,
                  args.window, overlap, args.binned, args.bins_per_decade,
                  [pad_to |-> NFFT, sides |-> args.kwds.sides])

PcaNoiseWith(overlap, NFFT) ==
  PcaNoiseDecompose(
    SegmentMeans(full_spectral_helper(RealOf(args.d), ImagOf(args.d), NFFT,
                                      args.Fs, args.detrend, args.window,
                                      overlap, NFFT, "default", "None")),
    args.lapack)

PcaWithErrorsWith(overlap, NFFT) ==
  PcaWithErrorsAt(RealOf(args.d), ImagOf(args.d), NFFT, args.Fs, args.window,
                  args.detrend, args.lapack, overlap, NFFT)

\* an entry point called with its overlap and padding length left out
AacUnspecified ==
  op = "auto_auto_cross" /\ args.noverlap = None /\ args.kwds.pad_to = None

\* C19: when the caller does not specify them, every entry point
\* (auto_auto_cross, pca_noise, pca_noise_with_errors) uses an overlap of
\* half the segment length and a padding length of the segment length.
C19_HalfOverlapEverywhere ==
  /\ AacUnspecified =>
       \E n \in {AacNFFT(args.a, args.NFFT)} : ret = AacWith(n \div 2, n)
  /\ op = "pca_noise" =>
       \E n \in {AacNFFT(args.d, args.NFFT)} : ret = PcaNoiseWith(n \div 2, n)
  /\ op = "pca_noise_with_errors" =>
       ret = PcaWithErrorsWith(args.NFFT \div 2, args.NFFT)

\* C19 as the code has it: auto_auto_cross overlaps half a segment (rounded
\* down), pca_noise and pca_noise_with_errors do not overlap, and all three
\* pad to the segment length.
C19_HalfOverlapInAutoAutoCrossOnly ==
  /\ AacUnspecified =>
       \E n \in {AacNFFT(args.a, args.NFFT)} : ret = AacWith(n \div 2, n)
  /\ op = "pca_noise" =>
       \E n \in {AacNFFT(args.d, args.NFFT)} : ret = PcaNoiseWith(0, n)
  /\ op = "pca_noise_with_errors" =>
       ret = PcaWithErrorsWith(0, args.NFFT)

\* auto_auto_cross returned, with the overlap left out, something else than
\* it returns without overlap
C19_Witness ==
  /\ AacUnspecified
  /\ ret.status = "ok"
  /\ \E n \in {AacNFFT(args.a, args.NFFT)} : ret # AacWith(0, n)

----------------------------------------------------------------------------
(* apps/data_analysis_scripts/process_mmw_noise_power_steps.py: the batch  *)
(* run (SpecBatch).  The script globs the capture files, sorts them and    *)
(* maps process_file_mp over them on a multiprocessing.Pool.  Each worker  *)
(* is a process that takes a file that no worker has taken, runs           *)
(* process_file_mp on it and hands the result back; pool.map returns the   *)
(* results in the files' order when every file has one, and raises in the  *)
(* parent, which ends the script and with it the workers, as soon as a     *)
(* call has raised.  args holds fns (the number of files; file i has a     *)
(* basename of its own, the files being those of one directory), pending   *)
(* (the files no worker has taken), running (per worker, its file or 0),   *)
(* results (per file) and pkl (per basename, the content of                *)
(* /home/data/pkl/<basename>.pkl).                                         *)

\* the most files of the batch, and the workers of the pool (the script
\* uses 6)
NumFiles == 3

NumWorkers == 2

\* what happens inside process_file: it runs to the end, or raises an
\* Exception somewhere before the result is saved, or is interrupted
Fates == {"completes", "raises", "interrupted"}

\* what no result and no pkl file look like
NoValue == "unset"

\* process_file(filename): lines 21-92 save the data and return it, a
\* KeyboardInterrupt returns None (lines 93-94), any other exception
\* leaves the function
process_file(fate) ==
  CASE fate = "completes" ->
         [raised |-> FALSE, value |-> "data", saved |-> TRUE]
    [] fate = "interrupted" ->
         [raised |-> FALSE, value |-> "None", saved |-> FALSE]
    [] OTHER ->
         [raised |-> TRUE, value |-> "Exception", saved |-> FALSE]

\* process_file_mp, were the exception not caught
process_file_mp_uncaught(r) == r

\* process_file_mp(filename), for what process_file does: an Exception is
\* returned as a value
process_file_mp(r) ==
  IF r.raised THEN [raised |-> FALSE, value |-> r.value, saved |-> r.saved]
  ELSE r

\* lines 113-120: the files are found and sorted, the pool is made and the
\* map is submitted
BatchStart ==
  \E n \in 0..NumFiles :
    /\ op = "init"
    /\ op' = "pool"
    /\ args' = [fns |-> n,
                pending |-> 1..n,
                running |-> [w \in 1..NumWorkers |-> 0],
                results |-> [f \in 1..n |-> NoValue],
                pkl |-> [f \in 1..n |-> NoValue]]
    /\ ret' = <<>>

\* an idle worker takes a file
WorkerTake ==
  /\ op = "pool"
  /\ \E w \in 1..NumWorkers, f \in args.pending :
       /\ args.running[w] = 0
       /\ args' = [args EXCEPT !.pending = @ \ {f}, !.running[w] = f]
  /\ UNCHANGED <<op, ret>>

\* a worker's call of process_file_mp ends: its result is handed back, or
\* what it raised is raised by pool.map in the parent
WorkerFinish ==
  /\ op = "pool"
  /\ \E w \in 1..NumWorkers, fate \in Fates :
       \E r \in {process_file_mp(process_file(fate))} :
         /\ args.running[w] # 0
         /\ IF r.raised
            THEN /\ op' = "aborted"
                 /\ ret' = r.value
                 /\ args' = [args EXCEPT !.running[w] = 0]
            ELSE /\ op' = op
                 /\ ret' = ret
                 /\ args' = [args EXCEPT
                      !.running[w] = 0,
                      !.results[args.running[w]] = r.value,
                      !.pkl[args.running[w]] =
                         IF r.saved THEN "data" ELSE @]

\* pool.map returns the list of the results (line 120), which the script
\* drops
PoolMapReturn ==
  /\ op = "pool"
  /\ args.pending = {}
  /\ \A w \in 1..NumWorkers : args.running[w] = 0
  /\ op' = "done"
  /\ ret' = args.results
  /\ UNCHANGED args

NextBatch ==
  \/ BatchStart
  \/ WorkerTake
  \/ WorkerFinish
  \/ PoolMapReturn

SpecBatch == Init /\ [][NextBatch]_vars

\* The workers are processes of the operating system and the parent waits
\* in pool.map: a worker that can take a file takes one, a call of
\* process_file_mp ends, and pool.map returns when it can.
SpecBatchFair ==
  /\ SpecBatch
  /\ WF_vars(WorkerTake)
  /\ WF_vars(WorkerFinish)
  /\ WF_vars(PoolMapReturn)

\* every file has a result, and its pkl file if it ran to the end
AllProcessed ==
  \A f \in 1..args.fns :
    /\ args.results[f] # NoValue
    /\ args.results[f] = "data" => args.pkl[f] = "data"

\* a step during the map changes the result and the pkl file of at most
\* the one file whose call ended, and of no file that has its result
OneFileStep ==
  (op = "pool" /\ op' = "pool") =>
    \E f \in 1..args.fns :
      \A g \in (1..args.fns) \ {f} :
        /\ args'.results[g] = args.results[g]
        /\ args'.pkl[g] = args.pkl[g]

\* C20: in the batch run a failure raised while processing one file is
\* returned by process_file_mp as a value, so under every interleaving of
\* the workers the batch is not aborted and every file is processed to the
\* end of the map, and processing one file changes nothing that belongs to
\* another file.
C20_FailureContained ==
  /\ [](op # "aborted")
  /\ [][OneFileStep]_vars
  /\ (op = "pool") ~> (op = "done" /\ AllProcessed)

\* the map is over with a file that failed, before or after one that ran
\* to the end and has its pkl file
C20_Witness ==
  /\ op = "done"
  /\ \E f, g \in 1..args.fns :
       /\ args.results[f] = "Exception"
       /\ args.results[g] = "data"
       /\ args.pkl[g] = "data"
       /\ args.pkl[f] = NoValue

----------------------------------------------------------------------------
(* roach/demodulator.py: calls of packet_phase (SpecPacketPhase).  ret is  *)
(* what the call returns, with the locals it computed on the way.          *)

\* lines 76-77: seq_no after the shift and the remainder
reduced_seq_no(seq_no, nfft, nchan, ns) ==
  PyMod(ShiftRight(seq_no, shift(nfft, nchan)), modn(nfft, nchan, ns))

\* lines 69-77: the locals of a call that returns
PacketPhaseLocals(seq_no, nchan, nfft, ns) ==
  [packet_counts |-> packet_counts(nfft),
   chan_counts |-> chan_counts(nfft, nchan),
   shift |-> shift(nfft, nchan),
   modn |-> modn(nfft, nchan, ns),
   multy |-> multy(nfft, ns),
   seq_no |-> reduced_seq_no(seq_no, nfft, nchan, ns)]

\* the sequence numbers, playback lengths and FFT lengths of the calls
MaxPhaseSeqNo == 9

MaxPhaseNs == 8

PhaseNffts == {1, 2, 4}

\* the channel counts: none, one, two, and those that leave 1, 2, 4 and 8
\* counts per channel
PhaseChannels(nfft) ==
  {0, 1, 2} \cup { (nfft * packet_bins) \div d : d \in {1, 2, 4, 8} }

\* the offsets of the two channels of a call
PhaseOffsets == { <<Q(1, 4), Q(-1, 2)>>, <<QInt(0), Q(3, 8)>> }

CallPacketPhase ==
  \E seq_no \in 0..MaxPhaseSeqNo, foffs \in PhaseOffsets, nfft \in PhaseNffts :
    \E nchan \in PhaseChannels(nfft), ns \in 1..MaxPhaseNs :
      \E r \in {packet_phase(seq_no, foffs, nchan, nfft, ns)} :
        /\ op = "init"
        /\ op' = "packet_phase"
        /\ args' = [seq_no |-> seq_no, foffs |-> foffs, nchan |-> nchan,
                    nfft |-> nfft, ns |-> ns]
        /\ ret' = IF r.status = "ok"
                  THEN [status |-> "ok", turns |-> r.turns,
                        locals |-> PacketPhaseLocals(seq_no, nchan, nfft, ns)]
                  ELSE [status |-> r.status, turns |-> r.turns]

NextPacketPhase == CallPacketPhase

SpecPacketPhase == Init /\ [][NextPacketPhase]_vars

\* a call of packet_phase that returned
PhaseReturned == op = "packet_phase" /\ ret.status = "ok"

\* C22: the modulus of packet_phase is ns divided by nfft * 1024,
\* whatever the channel count, replaced by 1 when the quotient is 0; it is
\* a positive integer for every input.
C22_ModulusIgnoresChannels ==
  PhaseReturned =>
    /\ ret.locals.modn =
         (IF args.ns \div (args.nfft * packet_bins) = 0 THEN 1
          ELSE args.ns \div (args.nfft * packet_bins))
    /\ ret.locals.modn > 0

\* C22 as the code has it: the modulus is ns divided by the counts per
\* channel, (nfft * 1024) // nchan, replaced by 1 when the quotient is 0;
\* it depends on the channel count and is positive in every call that
\* returns.
C22_ModulusPerChannel ==
  PhaseReturned =>
    \E cc \in {(args.nfft * packet_bins) \div args.nchan} :
      /\ ret.locals.chan_counts = cc
      /\ ret.locals.modn = (IF args.ns \div cc = 0 THEN 1 ELSE args.ns \div cc)
      /\ ret.locals.modn > 0

\* a call whose modulus is 2 although ns is below nfft * 1024
C22_Witness ==
  /\ PhaseReturned
  /\ args.ns < args.nfft * packet_bins
  /\ ret.locals.modn = 2

\* C23: the sequence number is reduced modulo a shift value, then modulo
\* the modulus; the reduced value is an integer in [0, modulus), and when
\* the modulus is 1 it is 0 and the correction is 1 for every channel.
C23_ReducedModuloShift ==
  PhaseReturned =>
    /\ ret.locals.seq_no =
         (args.seq_no % (2 ^ ret.locals.shift)) % ret.locals.modn
    /\ 0 <= ret.locals.seq_no /\ ret.locals.seq_no < ret.locals.modn
    /\ ret.locals.modn = 1 =>
         /\ ret.locals.seq_no = 0
         /\ \A c \in 1..Len(ret.turns) : ret.turns[c] = QInt(0)

\* C23 as the code has it: the sequence number is shifted right by the
\* shift (divided by 2^shift, rounded down), then reduced modulo the
\* modulus; the rest as stated, and the correction of channel c is the
\* turn -reduced * foffs[c] * (ns // nfft) / modulus.
C23_ReducedAfterRightShift ==
  PhaseReturned =>
    /\ ret.locals.seq_no =
         (args.seq_no \div (2 ^ ret.locals.shift)) % ret.locals.modn
    /\ 0 <= ret.locals.seq_no /\ ret.locals.seq_no < ret.locals.modn
    /\ ret.locals.modn = 1 =>
         /\ ret.locals.seq_no = 0
         /\ \A c \in 1..Len(ret.turns) : ret.turns[c] = QInt(0)
    /\ \A c \in 1..Len(ret.turns) :
         ret.turns[c] =
           QMod1(QMul(Q(-(ret.locals.seq_no * (args.ns \div args.nfft)),
                        ret.locals.modn), args.foffs[c]))

\* a call with a shift of 1 whose sequence number 6 is reduced to 1
C23_Witness ==
  /\ PhaseReturned
  /\ ret.locals.shift = 1
  /\ args.seq_no = 6
  /\ ret.locals.modn = 2
  /\ ret.locals.seq_no = 1
  /\ ret.turns[1] # QInt(0)

----------------------------------------------------------------------------
(* The batch form against the single-channel form (SpecDemodulate).        *)

\* what demodulate returns for channel c of the object and the buffer of a
\* batch call
DemodulateOfChannel(self, rows, seq_nos, c) ==
  demodulate(self.demodulator, Column(rows, c), self.tone_bins[c],
             self.tone_nsamp, self.phases[c], self.fft_bins[c],
             self.readout_selection.shape[1], seq_nos)

\* C24: for every buffer the output of demodulate_stream equals, channel by
\* channel, the output of demodulate on the truncated buffer: sample t of
\* channel c is rotated by exp(-i*2*pi*offset_c*t).  (Stated for sequence
\* numbers in a numpy array and a positive period, where both forms apply
\* the packet phase and the wave buffer is not empty.)
C24_StreamEqualsDemodulate ==
  (/\ op = "demodulate_stream"
   /\ ret.status = "ok"
   /\ IsNdarray(args.seq_nos)
   /\ args.head.nt > 0)
  => \A c \in 1..Len(args.foffs) :
       \E single \in {DemodulateOfChannel(args.self, args.head.rows,
                                          args.seq_nos, c)} :
         /\ single.status = "ok"
         /\ \A i \in 1..Len(ret.value) : ret.value[i][c] = single.value[i]

----------------------------------------------------------------------------
(* The doubling of the one-sided densities (SpecSpectral).                 *)

\* the call with the same arguments and sides='twosided'
FshTwoSided(a) ==
  full_spectral_helper(a.x, a.y, a.NFFT, a.Fs, a.detrend, a.window,
                       a.noverlap, a.pad_to, "twosided", a.scale_by_freq)

\* where the two-sided output keeps the bin k (from 0) of the transform:
\* line 256 moves the bins from numFreqs // 2 on to the front
TwoSidedRow(k, pad_to) == ((k + pad_to - pad_to \div 2) % pad_to) + 1

\* a row of densities, doubled
DoubledRow(row) == Tuple([i \in 1..Len(row) |-> CScale(QInt(2), row[i])])

\* the padding length of a call
PadToOf(a) == IF a.pad_to = None THEN a.NFFT ELSE a.pad_to

\* a one-sided call of full_spectral_helper that returned
OneSidedReturned ==
  /\ op = "full_spectral_helper"
  /\ ret.status = "ok"
  /\ args.sides \in {"default", "onesided"}

\* the one-sided densities are the two-sided ones, doubled in the bins
\* of the set doubled (bins counted from 0)
DoubledExactlyIn(doubled) ==
  \E two \in {FshTwoSided(args)} :
    \A k \in 0..(PadToOf(args) \div 2) :
      \E row \in {TwoSidedRow(k, PadToOf(args))} :
        IF k \in doubled
        THEN /\ ret.Pxx[k + 1] = DoubledRow(two.Pxx[row])
             /\ ret.Pyy[k + 1] = DoubledRow(two.Pyy[row])
             /\ ret.Pxy[k + 1] = DoubledRow(two.Pxy[row])
        ELSE /\ ret.Pxx[k + 1] = two.Pxx[row]
             /\ ret.Pyy[k + 1] = two.Pyy[row]
             /\ ret.Pxy[k + 1] = two.Pxy[row]

\* C25: for one-sided output and any padding length, every bin of S_AA,
\* S_BB and S_AB is doubled but the bin at zero frequency and the bin at the
\* Nyquist frequency; when the padding length is odd there is no Nyquist
\* bin and every bin but the first is doubled.
C25_DoublesAllButDcAndNyquist ==
  OneSidedReturned =>
    DoubledExactlyIn({ k \in 1..(PadToOf(args) \div 2) :
                         2 * k # PadToOf(args) })

\* what the code doubles: every bin but the first and the last
C25_DoublesAllButFirstAndLast ==
  OneSidedReturned =>
    DoubledExactlyIn(1..(PadToOf(args) \div 2 - 1))

----------------------------------------------------------------------------
(* The segments of full_spectral_helper (SpecSpectral).                    *)

\* a signal as the segments are cut from it: extended by zeros to NFFT
\* samples when it is shorter
Extended(sig, NFFT) == IF Len(sig) < NFFT THEN ZeroPad(sig, NFFT) ELSE sig

\* the window's values of a call
WindowValsOf(a) ==
  IF a.window.name = "iterable" THEN a.window.vals
  ELSE WindowOfOnes(a.window.name, a.NFFT)

\* the transform of the NFFT samples of sig from start on: detrended, then
\* multiplied by the window, then extended by zeros to pad_to samples
DetrendWindowPad(sig, start, a) ==
  Fft(ZeroPad(BroadcastMul(WindowValsOf(a),
                Detrend(a.detrend, SubSeq(sig, start + 1, start + a.NFFT))),
              PadToOf(a)),
      PadToOf(a))

\* the starts 0, step, 2 * step, ... of count segments
SegmentStarts(count, step) == Tuple([i \in 1..count |-> (i - 1) * step])

\* the densities of the segments of x and y that start at ind
DensitiesOfSegments(a, x, y, ind) ==
  FshResult(Tuple([i \in 1..Len(ind) |-> DetrendWindowPad(x, ind[i], a)]),
            Tuple([i \in 1..Len(ind) |-> DetrendWindowPad(y, ind[i], a)]),
            ind, WindowValsOf(a), a.NFFT, a.Fs, PadToOf(a),
            a.sides = "twosided", a.scale_by_freq \in {"None", "True"})

\* a call on two signals of one length, with an overlap below the segment
\* length and a padding length of at least the segment length, that
\* returned
SegmentedCall ==
  /\ op = "full_spectral_helper"
  /\ ret.status = "ok"
  /\ Len(args.x) = Len(args.y)
  /\ args.noverlap < args.NFFT
  /\ PadToOf(args) >= args.NFFT

----------------------------------------------------------------------------
(* What pca_noise_with_errors returns (SpecEntry).                         *)

\* the density of the imaginary part, as line 79 computes it
PqqOf(a) ==
  mlab_psd(ImagOf(a.d), a.NFFT, a.Fs, a.detrend, a.window, 0, None,
           "default")

\* the density of the real part, as line 78 computes it
PiiOf(a) ==
  mlab_psd(RealOf(a.d), a.NFFT, a.Fs, a.detrend, a.window, 0, None,
           "default")

\* the squares of a density over n
SquaresOver(P, n) ==
  Tuple([k \in 1..Len(P) |-> QDiv(QMul(P[k], P[k]), n)])

\* C28: with use_log_bins False, as with True, the spectra triple of the
\* result is (S_ii, S_qq, S_iq), the densities passed to
\* calculate_pca_noise, and the variance pair holds the squares of the two
\* auto-densities over n_averaged = d.size / NFFT.
C28_SpectraTriple ==
  (op = "pca_noise_with_errors" /\ ret.status = "ok") =>
    \E pii \in {PiiOf(args)}, pqq \in {PqqOf(args)} :
      /\ ret.spectra[1] = pii.P
      /\ Len(ret.spectra[2]) = Len(pqq.P)
      /\ \A k \in 1..Len(pqq.P) : ret.spectra[2][k] = CReal(pqq.P[k])
      /\ { ret.variance[1], ret.variance[2] } =
           { SquaresOver(pii.P, Q(Len(args.d), args.NFFT)),
             SquaresOver(pqq.P, Q(Len(args.d), args.NFFT)) }

----------------------------------------------------------------------------
(* roach/heterodyne.py: calc_fft_bins and the offset of demodulate_data    *)
(* (SpecHeterodyne).  A behaviour chooses the FFT bin of one tone and then *)
(* demodulates with it.                                                    *)

FHalf == FDiv(FFromInt(1), FFromInt(2))

FAbs(x) == IF x.s < 0 THEN FNeg(x) ELSE x

\* np.round(x).astype('int') for a float x >= 0: to the nearest integer,
\* halves to the even one
NpRound(x) ==
  LET t == FTrunc(x)
      c == FCmp(FSub(x, FFromInt(t)), FHalf)
  IN  IF c < 0 THEN t
      ELSE IF c > 0 THEN t + 1
      ELSE IF t % 2 = 0 THEN t ELSE t + 1

\* calc_fft_bins, were the quotient truncated
calc_fft_bins_truncating(nfft, tone_bin, nsamp) ==
  FTrunc(FDiv(FFromInt(tone_bin), FFromInt(PyFloorDiv(nsamp, nfft))))

\* RoachHeterodyne.calc_fft_bins(tone_bins, nsamp) for one tone bin, on an
\* object whose FFT length is nfft
calc_fft_bins(nfft, tone_bin, nsamp) ==
  NpRound(FDiv(FFromInt(tone_bin), FFromInt(PyFloorDiv(nsamp, nfft))))

\* line 277 of demodulate_data: foffs = (k * nfft - m * ns) / float(ns)
demodulate_data_foffs(k, m, nfft, ns) ==
  FDiv(FFromInt(k * nfft - m * ns), FFromInt(ns))

\* the FFT lengths and the playback lengths, in FFT lengths, of the calls
MaxHetNfft == 12

MaxHetRatio == 6

CallCalcFftBins ==
  \E nfft \in 1..MaxHetNfft, j \in 1..MaxHetRatio :
    \E tone_bin \in 0..(j * nfft - 1) :
      /\ op = "init"
      /\ op' = "calc_fft_bins"
      /\ args' = [nfft |-> nfft, tone_bin |-> tone_bin, nsamp |-> j * nfft]
      /\ ret' = [fft_bin |-> calc_fft_bins(nfft, tone_bin, j * nfft)]

\* demodulate_data reads the tone bin, the FFT bin chosen for it, the FFT
\* length and the playback length from the object
CallDemodulateData ==
  /\ op = "calc_fft_bins"
  /\ op' = "demodulate_data"
  /\ args' = [k |-> args.tone_bin, m |-> ret.fft_bin, nfft |-> args.nfft,
              ns |-> args.nsamp]
  /\ ret' = [foffs |-> demodulate_data_foffs(args.tone_bin, ret.fft_bin,
                                             args.nfft, args.nsamp)]

NextHeterodyne ==
  \/ CallCalcFftBins
  \/ CallDemodulateData

SpecHeterodyne == Init /\ [][NextHeterodyne]_vars

FTiny == FDiv(FDiv(FFromInt(1), FFromInt(2 ^ 30)), FFromInt(2 ^ 21))

----------------------------------------------------------------------------
(* roach/tools.py: optimize_fft_gain (SpecGain).  The interface ri is the  *)
(* sequence of gains written to it; a measurement is the gain it was taken *)
(* at and the largest magnitude among its data points, which the hardware  *)
(* chooses.  ret holds the locals of the call while it runs.               *)

\* line 235: 2**15
maximum_absolute_value == 32768

\* the gains the search may reach, the magnitudes a measurement may peak
\* at, and the fractions of the maximum
MaxGain == 4

Peaks == {0, 16384, 16385, 40000}

Fractions == { <<1, 2>>, <<1, 1>> }

\* line 244: np.any(np.abs(sa.s21_raw) > fraction_of_maximum * 2**15)
TooLarge(peak, fraction_of_maximum) ==
  peak * fraction_of_maximum[2]
    > fraction_of_maximum[1] * maximum_absolute_value

\* lines 245-248, were the gain that was too large kept
GainAfterKept(fft_gain, too_large) ==
  IF too_large THEN fft_gain ELSE fft_gain + 1

\* lines 245-248
GainAfter(fft_gain, too_large) ==
  IF too_large THEN fft_gain - 1 ELSE fft_gain + 1

\* lines 235-238
CallOptimizeFftGain ==
  \E fraction \in Fractions :
    /\ op = "init"
    /\ op' = "optimize_fft_gain"
    /\ args' = [fraction_of_maximum |-> fraction]
    /\ ret' = [fft_gain |-> 0, too_large |-> FALSE, measurements |-> <<>>,
               ri |-> <<>>]

\* lines 239-248: one pass of the loop
OptimizeMeasure ==
  /\ op = "optimize_fft_gain"
  /\ ~ret.too_large
  /\ ret.fft_gain <= MaxGain
  /\ \E peak \in Peaks :
       \E large \in {TooLarge(peak, args.fraction_of_maximum)} :
         /\ ret' = [fft_gain |-> GainAfter(ret.fft_gain, large),
                    too_large |-> large,
                    measurements |->
                      Append(ret.measurements,
                             [fft_gain |-> ret.fft_gain, peak |-> peak]),
                    ri |-> Append(ret.ri, ret.fft_gain)]
  /\ UNCHANGED <<op, args>>

\* lines 249-253: the loop is left
OptimizeReturn ==
  /\ op = "optimize_fft_gain"
  /\ ret.too_large
  /\ op' = "optimize_fft_gain returned"
  /\ \E fft_gain \in {IF ret.fft_gain = -1 THEN 0 ELSE ret.fft_gain} :
       ret' = [ret EXCEPT !.fft_gain = fft_gain,
                          !.ri = Append(ret.ri, fft_gain)]
  /\ UNCHANGED args

NextGain ==
  \/ CallOptimizeFftGain
  \/ OptimizeMeasure
  \/ OptimizeReturn

SpecGain == Init /\ [][NextGain]_vars

\* the measurement taken at gain g exceeded the limit
Exceeded(g) ==
  \E i \in 1..Len(ret.measurements) :
    /\ ret.measurements[i].fft_gain = g
    /\ TooLarge(ret.measurements[i].peak, args.fraction_of_maximum)

Measured(g) ==
  \E i \in 1..Len(ret.measurements) : ret.measurements[i].fft_gain = g

\* C21: the search measures at the gains 0, 1, 2, ... in that order and
\* stops at the first measurement that is too large; when optimize_fft_gain
\* returns, the gain last written to the interface is the highest gain g
\* >= 0 whose measurement did not exceed fraction_of_maximum * 2^15 (the one
\* at g + 1 did), and 0 if the measurement at gain 0 exceeded it.
C21_HighestGainWithinLimit ==
  /\ op \in {"optimize_fft_gain", "optimize_fft_gain returned"} =>
       /\ \A i \in 1..Len(ret.measurements) :
            /\ ret.measurements[i].fft_gain = i - 1
            /\ ret.ri[i] = i - 1
            /\ i < Len(ret.measurements) => ~Exceeded(i - 1)
       /\ ret.too_large <=> (ret.measurements # <<>>
                             /\ Exceeded(Len(ret.measurements) - 1))
  /\ op = "optimize_fft_gain returned" =>
       \E g \in {ret.ri[Len(ret.ri)]} :
         /\ Len(ret.ri) = Len(ret.measurements) + 1
         /\ g >= 0
         /\ Exceeded(g + 1) \/ (g = 0 /\ Exceeded(0))
         /\ ~Exceeded(0) => (Measured(g) /\ ~Exceeded(g))
         /\ \A h \in 0..(MaxGain + 1) : (Measured(h) /\ ~Exceeded(h)) => h <= g

\* a call that returned with the gain 2 written last, after measurements
\* at 0, 1, 2 within the limit and one at 3 above it
C21_Witness ==
  /\ op = "optimize_fft_gain returned"
  /\ ret.ri = <<0, 1, 2, 3, 2>>
  /\ Exceeded(3) /\ ~Exceeded(2)

----------------------------------------------------------------------------
(* roach/tools.py: set_and_attempt_external_phase_lock (SpecLock).  ret    *)
(* holds the line the call is at, its local attempt, the LO frequency and  *)
(* the reference selected on the interface, the calls made on the          *)
(* interface in order, and what every query of the phase locks returned.   *)
(* Whether the LO is locked at a query is the hardware's choice.           *)

\* line 201
f_lock == 4000

\* the largest max_attempts of a call, and the LO frequencies asked for
MaxAttempts == 3

LoFrequencies == {1000, f_lock}

\* line 216, were the comparison strict
AttemptsExhaustedLate(attempt, max_attempts) == attempt > max_attempts

\* line 216
AttemptsExhausted(attempt, max_attempts) == attempt >= max_attempts

LockRunning == op = "set_and_attempt_external_phase_lock"

LockReturned == op = "set_and_attempt_external_phase_lock returned"

LockRaised == op = "set_and_attempt_external_phase_lock raised RuntimeError"

\* lines 200-202
CallSetAndAttempt ==
  \E f_lo \in LoFrequencies, max_attempts \in 0..MaxAttempts :
    \E ref \in 0..1 :
      /\ op = "init"
      /\ op' = "set_and_attempt_external_phase_lock"
      /\ args' = [f_lo |-> f_lo, max_attempts |-> max_attempts]
      /\ ret' = [line |-> 203, attempt |-> 0, lo |-> f_lo, ref |-> ref,
                 calls |-> << <<"set_lo", f_lo>> >>, locks |-> <<>>]

\* line 203: the loop's test; the function returns when it fails
LoopTest ==
  /\ LockRunning /\ ret.line = 203
  /\ \E locked \in BOOLEAN :
       /\ ret' = [ret EXCEPT !.locks = Append(ret.locks, locked),
                             !.line = IF locked THEN 220 ELSE 204]
       /\ op' = IF locked
                THEN "set_and_attempt_external_phase_lock returned" ELSE op
  /\ UNCHANGED args

\* lines 204-206
SelectReference0 ==
  /\ LockRunning /\ ret.line = 204
  /\ ret' = [ret EXCEPT !.attempt = ret.attempt + 1, !.ref = 0,
                        !.calls = Append(ret.calls, <<"set_ref_select", 0>>),
                        !.line = 208]
  /\ UNCHANGED <<op, args>>

\* lines 208-209
SetLoToLock ==
  /\ LockRunning /\ ret.line = 208
  /\ ret' = [ret EXCEPT !.lo = f_lock,
                        !.calls = Append(ret.calls, <<"set_lo", f_lock>>),
                        !.line = 210]
  /\ UNCHANGED <<op, args>>

\* lines 210-211
SetLoBack ==
  /\ LockRunning /\ ret.line = 210
  /\ ret' = [ret EXCEPT !.lo = args.f_lo,
                        !.calls = Append(ret.calls, <<"set_lo", args.f_lo>>),
                        !.line = 212]
  /\ UNCHANGED <<op, args>>

\* lines 212-213
SelectReference1 ==
  /\ LockRunning /\ ret.line = 212
  /\ ret' = [ret EXCEPT !.ref = 1,
                        !.calls = Append(ret.calls, <<"set_ref_select", 1>>),
                        !.line = 214]
  /\ UNCHANGED <<op, args>>

\* lines 214-219
CheckLock ==
  /\ LockRunning /\ ret.line = 214
  /\ \E locked \in BOOLEAN :
       /\ ret' = [ret EXCEPT
                    !.locks = Append(ret.locks, locked),
                    !.line = IF locked THEN 215
                             ELSE IF AttemptsExhausted(ret.attempt,
                                                       args.max_attempts)
                             THEN 219 ELSE 203]
       /\ op' = IF locked
                THEN "set_and_attempt_external_phase_lock returned"
                ELSE IF AttemptsExhausted(ret.attempt, args.max_attempts)
                THEN "set_and_attempt_external_phase_lock raised RuntimeError"
                ELSE op
  /\ UNCHANGED args

NextLock ==
  \/ CallSetAndAttempt
  \/ LoopTest
  \/ SelectReference0
  \/ SetLoToLock
  \/ SetLoBack
  \/ SelectReference1
  \/ CheckLock

SpecLock == Init /\ [][NextLock]_vars

\* the interpreter goes on to the next statement, and every call on the
\* interface and every sleep returns
SpecLockFair == SpecLock /\ WF_vars(NextLock)

\* the calls of n whole attempts, after the first set_lo
RECURSIVE AttemptCalls(_, _)
AttemptCalls(n, f_lo) ==
  IF n = 0 THEN << <<"set_lo", f_lo>> >>
  ELSE AttemptCalls(n - 1, f_lo)
         \o << <<"set_ref_select", 0>>, <<"set_lo", f_lock>>,
               <<"set_lo", f_lo>>, <<"set_ref_select", 1>> >>

\* what holds of a call at every moment
LockSafety ==
  (LockRunning \/ LockReturned \/ LockRaised) =>
    \* no more than max_attempts attempts
    /\ args.max_attempts >= 1 => ret.attempt <= args.max_attempts
    \* the attempts are made of the four calls in their order
    /\ \E whole \in {AttemptCalls(ret.attempt, args.f_lo)} :
         IF ret.line \in {208, 210, 212}
         THEN ret.calls = SubSeq(whole, 1, Len(ret.calls))
              /\ Len(ret.calls) < Len(whole)
         ELSE ret.calls = whole
    \* no query before the last found the LO locked
    /\ \A i \in 1..(Len(ret.locks) - 1) : ~ret.locks[i]
    /\ LockRunning => \A i \in 1..Len(ret.locks) : ~ret.locks[i]
    \* it returns exactly when a query finds the LO locked
    /\ LockReturned =>
         /\ ret.locks[Len(ret.locks)]
         /\ ret.lo = args.f_lo
         /\ (ret.attempt = 0) <=> (Len(ret.locks) = 1)
    \* it raises after max_attempts attempts without a lock
    /\ LockRaised =>
         /\ ~ret.locks[Len(ret.locks)]
         /\ ret.lo = args.f_lo
         /\ args.max_attempts >= 1 => ret.attempt = args.max_attempts

\* C30: set_and_attempt_external_phase_lock always terminates; it returns
\* without an attempt when the LO is locked already, returns as soon as a
\* lock is observed after an attempt, and otherwise raises RuntimeError
\* after exactly max_attempts attempts (max_attempts >= 1), never making
\* more; each attempt selects reference 0, sets the LO to the lock
\* frequency, sets it back to f_lo and only then selects reference 1, so
\* the LO is at f_lo whenever the function returns or raises.
C30_TerminatesWithinMaxAttempts ==
  /\ []LockSafety
  /\ LockRunning ~> (LockReturned \/ LockRaised)

\* a call that raised after three whole attempts
C30_Witness ==
  /\ LockRaised
  /\ args.max_attempts = 3
  /\ ret.attempt = 3
  /\ Len(ret.calls) = 13
  /\ ret.lo = args.f_lo
  /\ args.f_lo # f_lock

----------------------------------------------------------------------------
(* measurement/io/nc.py: attributes and dictionaries of a node (SpecNc).   *)
(* A name is the sequence of its characters.  A value is an integer        *)
(* [kind "int"] or a dict [kind "dict"] of items <<name, value>>.  A       *)
(* netCDF4 group holds its attributes (ncattrs, __dict__) and its          *)
(* subgroups (groups), each a set of pairs <<name, content>>.  The node    *)
(* paths of core.join, core.split and core.explode address a subgroup by   *)
(* its name.                                                               *)

\* line 31: is_dict = '.dict'
is_dict == <<".", "d", "i", "c", "t">>

Chars(str) == { str[i] : i \in 1..Len(str) }

\* name.endswith(suffix)
EndsWith(name, suffix) ==
  /\ Len(name) >= Len(suffix)
  /\ SubSeq(name, Len(name) - Len(suffix) + 1, Len(name)) = suffix

\* name[:-len(suffix)]
WithoutSuffix(name, chars) == SubSeq(name, 1, Len(name) - Len(chars))

\* name.rstrip(chars): the trailing characters that occur in chars are
\* removed, one by one
RECURSIVE RStrip(_, _)
RStrip(name, chars) ==
  IF name # <<>> /\ name[Len(name)] \in Chars(chars)
  THEN RStrip(SubSeq(name, 1, Len(name) - 1), chars)
  ELSE name

IntValue(n) == [kind |-> "int", int |-> n, items |-> {}]

DictValue(items) == [kind |-> "dict", int |-> 0, items |-> items]

EmptyGroup == [attrs |-> {}, groups |-> {}]

\* the pairs of a set of pairs under a name, and the set without them
Under(pairs, name) == { p \in pairs : p[1] = name }

Without(pairs, name) == { p \in pairs : p[1] # name }

\* lines 62-65 on a new group: the group that holds the items of a dict
RECURSIVE GroupOfDict(_)
GroupOfDict(value) ==
  [attrs |-> { it \in value.items : it[2].kind # "dict" },
   groups |-> { <<it[1] \o is_dict, GroupOfDict(it[2])>> :
                  it \in { i \in value.items : i[2].kind = "dict" } }]

\* write_other(node_path, key, value): the node afterwards
write_other(node, key, value) ==
  IF value.kind = "dict"
  THEN [node EXCEPT !.groups = Without(node.groups, key \o is_dict)
                      \cup {<<key \o is_dict, GroupOfDict(value)>>}]
  ELSE [node EXCEPT !.attrs = Without(node.attrs, key) \cup {<<key, value>>}]

\* _read_dict(group)
RECURSIVE read_dict(_)
read_dict(group) ==
  DictValue(group.attrs
              \cup { <<g[1], read_dict(g[2])>> : g \in group.groups })

\* read_other(node_path, name)
read_other(node, name) ==
  IF Under(node.groups, name \o is_dict) # {}
  THEN [status |-> "ok",
        value |-> read_dict((CHOOSE g \in Under(node.groups,
                                                name \o is_dict) : TRUE)[2])]
  ELSE IF Under(node.attrs, name) # {}
  THEN [status |-> "ok",
        value |-> (CHOOSE a \in Under(node.attrs, name) : TRUE)[2]]
  ELSE [status |-> "KeyError", value |-> IntValue(0)]

\* get_measurement_names(node_path), as a set
get_measurement_names(node) ==
  { g[1] : g \in { h \in node.groups : ~EndsWith(h[1], is_dict) } }

\* get_other_names, were the suffix cut off
get_other_names_by_suffix(node) ==
  { a[1] : a \in node.attrs }
    \cup { WithoutSuffix(g[1], is_dict) :
             g \in { h \in node.groups : EndsWith(h[1], is_dict) } }

\* get_other_names(node_path), as a set
get_other_names(node) ==
  { a[1] : a \in node.attrs }
    \cup { RStrip(g[1], is_dict) :
             g \in { h \in node.groups : EndsWith(h[1], is_dict) } }

\* the names and values of the calls: names of the test's corner cases and
\* others, the integers 0 and 1, and dicts up to three deep
NameOne == <<"o", "n", "e">>

NameFalse == <<"f", "a", "l", "s", "e">>

NameDictDict == <<"d", "i", "c", "t", "_", "d", "i", "c", "t">>

NameNoneDict == <<"n", "o", "n", "e", "_", "d", "i", "c", "t">>

NameListDict == <<"l", "i", "s", "t", "_", "d", "i", "c", "t">>

NameADict == <<"a", "_", "d", "i", "c", "t">>

NameAnotherDict ==
  <<"a", "n", "o", "t", "h", "e", "r", "_", "d", "i", "c", "t">>

NameState == <<"s", "t", "a", "t", "e">>

NameSweep == <<"s", "w", "e", "e", "p">>

NameTrue == <<"t", "r", "u", "e">>

Keys ==
  {NameOne, NameFalse, NameDictDict, NameNoneDict, NameListDict, NameADict,
   NameState}

Values ==
  { IntValue(0), IntValue(1), DictValue({}),
    DictValue({<<NameOne, IntValue(1)>>}),
    DictValue({<<NameNoneDict, DictValue({<<NameOne, IntValue(1)>>})>>}),
    DictValue({<<NameOne, IntValue(1)>>,
               <<NameADict,
                 DictValue({<<NameFalse, IntValue(0)>>,
                            <<NameAnotherDict, DictValue({})>>})>>}) }

\* the node before the call: one attribute and one measurement
StartNode ==
  [attrs |-> {<<NameTrue, IntValue(1)>>},
   groups |-> {<<NameSweep, EmptyGroup>>}]

CallWriteOther ==
  \E key \in Keys, value \in Values :
    /\ op = "init"
    /\ op' = "write_other"
    /\ args' = [node |-> StartNode, key |-> key, value |-> value]
    /\ ret' = [node |-> write_other(StartNode, key, value), names |-> {},
               read |-> [status |-> "none", value |-> IntValue(0)]]

\* the three readers are called on the node that was written
CallGetOtherNames ==
  /\ op = "write_other"
  /\ op' = "get_other_names"
  /\ ret' = [ret EXCEPT !.names = get_other_names(ret.node)]
  /\ UNCHANGED args

CallReadOther ==
  /\ op = "write_other"
  /\ op' = "read_other"
  /\ ret' = [ret EXCEPT !.read = read_other(ret.node, args.key)]
  /\ UNCHANGED args

CallGetMeasurementNames ==
  /\ op = "write_other"
  /\ op' = "get_measurement_names"
  /\ ret' = [ret EXCEPT !.names = get_measurement_names(ret.node)]
  /\ UNCHANGED args

NextNc ==
  \/ CallWriteOther
  \/ CallGetOtherNames
  \/ CallReadOther
  \/ CallGetMeasurementNames

SpecNc == Init /\ [][NextNc]_vars

\* a dict was written under args.key
DictWritten ==
  /\ op \in {"get_other_names", "read_other", "get_measurement_names"}
  /\ args.value.kind = "dict"

\* C29: dictionary names round-trip for every key, those that end in
\* characters of '.dict' included: after write_other(node, key, d) with a
\* dict d, get_other_names(node) contains exactly key for that dictionary,
\* read_other(node, key) returns d, and get_measurement_names(node) does
\* not list it.
C29_DictNamesRoundTrip ==
  DictWritten =>
    /\ op = "get_other_names" =>
         ret.names = get_other_names(args.node) \cup {args.key}
    /\ op = "read_other" =>
         ret.read = [status |-> "ok", value |-> args.value]
    /\ op = "get_measurement_names" =>
         ret.names = get_measurement_names(args.node)

\* the part of C29 that holds for every key: the dict is not listed as a
\* measurement, and a dict without dicts inside is read back
C29_NotAMeasurementAndFlatRead ==
  DictWritten =>
    /\ op = "get_measurement_names" =>
         ret.names = get_measurement_names(args.node)
    /\ (/\ op = "read_other"
        /\ \A it \in args.value.items : it[2].kind = "int")
       => ret.read = [status |-> "ok", value |-> args.value]
    /\ (op = "get_other_names" /\ args.key \in {NameOne, NameState})
       => ret.names = get_other_names(args.node) \cup {args.key}
====
